---- MODULE Spec2Model ----
(***************************************************************************)
(* Model of the screenshot-diffing workflow of material-components-web:    *)
(* Controller (upload, diff), ImageDiffer (classification of screenshots)  *)
(* and SnapshotStore (golden.json merge and persistence).                  *)
(*                                                                         *)
(* JavaScript values are modelled as follows.  A JS object used as a map   *)
(* (a suite, a page's `screenshots`) is an insertion-ordered sequence of   *)
(* <<key, value>> entries with unique keys, so that Object.entries order   *)
(* is part of the model.  `null` and `undefined` are the strings "null"    *)
(* and "undefined" (a property key that is `undefined` is coerced to the   *)
(* string "undefined", as in JS).  URLs are non-empty strings.             *)
(***************************************************************************)
EXTENDS Integers, Sequences, FiniteSets, TLC

\* ------------------------------------------------------------------ bounds
\* Largest number of screenshot entries of the run and the baseline together.
MaxShots == 4
\* Largest number of --mdc-approve-* flags given to one approval run.
MaxApprovals == 2
\* Largest number of asset files of one upload batch.
MaxAssets == 3
\* Largest number of test cases of one capture batch.
MaxPages == 2
\* Largest number of fromDiffBase calls on one store.
MaxCalls == 3

\* Page and browser identifiers of the runs, each listed in en-US collation
\* order (which for these names is also UTF-16 code unit order).
PageIds == <<"mdc-a.html", "mdc-b.html">>
BrowserIds == <<"chrome", "firefox">>
Pages == {PageIds[i] : i \in 1..Len(PageIds)}
Browsers == {BrowserIds[i] : i \in 1..Len(BrowserIds)}
ShotKeys == Pages \X Browsers

\* -------------------------------------------------------------- JS values
Null == "null"
Undefined == "undefined"
Truthy(v) == v \notin {Null, Undefined, ""}

\* Key order of String.prototype.localeCompare(_, 'en-US') and of the default
\* Array.prototype.sort on the property names that occur in the model.
KeyOrder == <<"chrome", "firefox", "mdc-a.html", "mdc-b.html", "undefined">>
KeyRank(k) == CHOOSE i \in 1..Len(KeyOrder) : KeyOrder[i] = k
localeCompare(a, b) ==
    IF KeyRank(a) < KeyRank(b) THEN -1 ELSE IF KeyRank(a) > KeyRank(b) THEN 1 ELSE 0

ObjHas(o, k) == \E i \in 1..Len(o) : o[i][1] = k
ObjIdx(o, k) == CHOOSE i \in 1..Len(o) : o[i][1] = k
ObjGet(o, k) == IF ObjHas(o, k) THEN o[ObjIdx(o, k)][2] ELSE Undefined
ObjSet(o, k, v) ==
    IF ObjHas(o, k) THEN [o EXCEPT ![ObjIdx(o, k)] = <<k, v>>] ELSE Append(o, <<k, v>>)
ObjDelete(o, k) == SelectSeq(o, LAMBDA e : e[1] # k)
ObjKeySet(o) == {o[i][1] : i \in 1..Len(o)}
\* Property read on a record-shaped object: a missing property is undefined.
RecGet(r, f) == IF f \in DOMAIN r THEN r[f] ELSE Undefined

RECURSIVE Flatten(_)
Flatten(ss) == IF ss = <<>> THEN <<>> ELSE Head(ss) \o Flatten(Tail(ss))

\* Array.prototype.sort with a comparator (stable; insertion of each element
\* after the last element that does not compare greater).
SortBy(s, cmp(_, _)) ==
    LET RECURSIVE Insert(_, _)
        Insert(t, x) ==
            IF t = <<>> THEN <<x>>
            ELSE IF cmp(t[Len(t)], x) <= 0 THEN Append(t, x)
            ELSE Append(Insert(SubSeq(t, 1, Len(t) - 1), x), t[Len(t)])
        RECURSIVE Sort(_)
        Sort(t) ==
            IF t = <<>> THEN <<>>
            ELSE Insert(Sort(SubSeq(t, 1, Len(t) - 1)), t[Len(t)])
    IN Sort(s)

\* -------------------------------------------------------------------- URLs
\* Public URL the storage gives a file uploaded under an upload directory.
BaseUploadDir == "cur"
OldUploadDir == "old"
PageUrl(dir, p) == dir \o "/" \o p
ImageUrl(dir, p, b) == dir \o "/" \o p \o "." \o b \o ".png"
DiffImageUrl(p, b) == BaseUploadDir \o "/" \o p \o "." \o b \o ".diff.png"
DiffPng == "diff.png.bytes"

\* ------------------------------------------------------------ SnapshotStore
\* JSON.parse(JSON.stringify(x)) of a suite: entry order is kept, properties
\* whose value is undefined are dropped.
deepCloneJson_(suite) ==
    [i \in 1..Len(suite) |->
        <<suite[i][1],
          [publicUrl |-> suite[i][2].publicUrl,
           screenshots |-> SelectSeq(suite[i][2].screenshots,
                                     LAMBDA e : e[2] # Undefined)]>>]

CompareKeys(x, y) == localeCompare(x[1], y[1])
\* A serialization that writes the keys in insertion order.
stringifyInInsertionOrder(jsonData) == deepCloneJson_(jsonData)
\* json-stable-stringify: keys sorted at every level, undefined dropped.  The
\* file content is represented by the entry sequence in written order.
stringify_(jsonData) ==
    LET c == deepCloneJson_(jsonData)
        pages == [i \in 1..Len(c) |->
                    <<c[i][1], [publicUrl |-> c[i][2].publicUrl,
                                screenshots |-> SortBy(c[i][2].screenshots, CompareKeys)]>>]
    IN SortBy(pages, CompareKeys)

\* JSON.parse of a golden.json content: members are added in file order, a
\* repeated name keeps its first position and takes the last value.
RECURSIVE ParseMembers(_, _)
ParseMembers(acc, members) ==
    IF members = <<>> THEN acc
    ELSE ParseMembers(ObjSet(acc, Head(members)[1], Head(members)[2]), Tail(members))
JsonParse(content) ==
    ParseMembers(<<>>, [i \in 1..Len(content) |->
        <<content[i][1], [publicUrl |-> content[i][2].publicUrl,
                          screenshots |-> ParseMembers(<<>>, content[i][2].screenshots)]>>])

RECURSIVE AddScreenshots(_, _)
AddScreenshots(screenshots, files) ==
    IF files = <<>> THEN screenshots
    ELSE AddScreenshots(ObjSet(screenshots, Head(files).userAgent.alias, Head(files).publicUrl),
                        Tail(files))
RECURSIVE FromTestCasesFrom(_, _)
FromTestCasesFrom(jsonData, testCases) ==
    IF testCases = <<>> THEN jsonData
    ELSE LET tc == Head(testCases)
         IN FromTestCasesFrom(
               ObjSet(jsonData, tc.htmlFile.destinationRelativeFilePath,
                      [publicUrl |-> tc.htmlFile.publicUrl,
                       screenshots |-> AddScreenshots(<<>>, tc.screenshotImageFiles)]),
               Tail(testCases))
fromTestCases(testCases) == FromTestCasesFrom(<<>>, testCases)

\* diffs.find(...) of updateAllScreenshots_: the diff of a page and browser key.
ScreenshotHasDiff(diffs, htmlFilePath, browserKey) ==
    \E i \in 1..Len(diffs) :
        /\ RecGet(diffs[i], "htmlFilePath") = htmlFilePath
        /\ RecGet(diffs[i], "browserKey") = browserKey

\* A full merge that writes the run's pages over the old baseline.
updateAllScreenshotsOntoOld(reportJson, oldJsonData) ==
    [threw |-> FALSE,
     json |-> FromTestCasesFrom(deepCloneJson_(oldJsonData), reportJson.testCases)]
\* A full merge that takes the new manifest as it is.
updateAllScreenshotsTakeNew(reportJson, oldJsonData) ==
    [threw |-> FALSE, json |-> fromTestCases(reportJson.testCases)]
updateAllScreenshots_(reportJson, oldJsonData) ==
    LET newJsonData == fromTestCases(reportJson.testCases)
        diffs == reportJson.diffs
        NewShot(p, e) ==
            LET oldUrl == ObjGet(ObjGet(oldJsonData, p).screenshots, e[1])
            IN IF Truthy(oldUrl) /\ ~ScreenshotHasDiff(diffs, p, e[1])
               THEN <<e[1], oldUrl>> ELSE e
        PageHasDiffs(p, page) ==
            \E i \in 1..Len(page.screenshots) :
                ScreenshotHasDiff(diffs, p, page.screenshots[i][1])
        NewPage(entry) ==
            LET p == entry[1]
                page == entry[2]
            IN IF ~ObjHas(oldJsonData, p) THEN entry
               ELSE <<p, [publicUrl |-> IF PageHasDiffs(p, page) THEN page.publicUrl
                                        ELSE ObjGet(oldJsonData, p).publicUrl,
                          screenshots |-> [i \in 1..Len(page.screenshots) |->
                                              NewShot(p, page.screenshots[i])]]>>
    IN [threw |-> FALSE, json |-> [i \in 1..Len(newJsonData) |-> NewPage(newJsonData[i])]]

\* One step of diffs.forEach of updateFilteredScreenshots_; a read of a
\* property of undefined throws a TypeError.
UpdateFilteredStep(acc, diff, newJsonData) ==
    LET p == RecGet(diff, "htmlFilePath")
        browserKey == RecGet(diff, "browserKey")
    IN IF acc.threw THEN acc
       ELSE IF ~ObjHas(newJsonData, p) THEN [acc EXCEPT !.threw = TRUE]
       ELSE LET newPage == ObjGet(newJsonData, p)
            IN IF ObjHas(acc.json, p)
               THEN LET page == ObjGet(acc.json, p)
                    IN [acc EXCEPT !.json = ObjSet(acc.json, p,
                          [publicUrl |-> newPage.publicUrl,
                           screenshots |-> ObjSet(page.screenshots, browserKey,
                                                  ObjGet(newPage.screenshots, browserKey))])]
               ELSE [acc EXCEPT !.json = ObjSet(acc.json, p, newPage)]
RECURSIVE UpdateFilteredFrom(_, _, _)
UpdateFilteredFrom(acc, diffs, newJsonData) ==
    IF diffs = <<>> THEN acc
    ELSE UpdateFilteredFrom(UpdateFilteredStep(acc, Head(diffs), newJsonData),
                            Tail(diffs), newJsonData)
updateFilteredScreenshots_(reportJson, oldJsonData) ==
    UpdateFilteredFrom([threw |-> FALSE, json |-> deepCloneJson_(oldJsonData)],
                       reportJson.diffs, fromTestCases(reportJson.testCases))

getJsonData_(reportJson, oldJsonData, hasAnyFilters) ==
    IF hasAnyFilters THEN updateFilteredScreenshots_(reportJson, oldJsonData)
    ELSE updateAllScreenshots_(reportJson, oldJsonData)

\* `screenshots.length === 0` of writeFilteredToDisk_: `screenshots` is a plain
\* object, whose `length` is the value of a property of that name (a URL
\* string) or undefined, and neither is strictly equal to the number 0.
ScreenshotsLengthIsZero(screenshots) ==
    LET length == ObjGet(screenshots, "length")
    IN CASE length = Undefined -> FALSE
         [] OTHER -> FALSE

\* A filter callback that compares the page only.
FilterMatchesPageOnly(filter, entry) == filter[1] = entry.htmlFilePath
\* The (filter) => ... callback of the three filters of writeFilteredToDisk_.
FilterMatches(filter, entry) ==
    filter[1] = entry.htmlFilePath /\ filter[2] = entry.userAgentAlias
FilterEntries(entries, filters) ==
    SelectSeq(entries, LAMBDA e : \E filter \in filters : FilterMatches(filter, e))

ApplyDiff(acc, diff) ==
    IF acc.threw THEN acc
    ELSE IF ~ObjHas(acc.json, diff.htmlFilePath) THEN [acc EXCEPT !.threw = TRUE]
    ELSE LET page == ObjGet(acc.json, diff.htmlFilePath)
         IN [acc EXCEPT !.json = ObjSet(acc.json, diff.htmlFilePath,
                [page EXCEPT !.screenshots =
                    ObjSet(page.screenshots, diff.userAgentAlias, diff.snapshotPageUrl)])]
ApplyAdded(acc, added) ==
    IF acc.threw THEN acc
    ELSE LET page == IF ObjHas(acc.json, added.htmlFilePath)
                     THEN ObjGet(acc.json, added.htmlFilePath)
                     ELSE [publicUrl |-> added.snapshotPageUrl, screenshots |-> <<>>]
         IN [acc EXCEPT !.json = ObjSet(acc.json, added.htmlFilePath,
                [page EXCEPT !.screenshots =
                    ObjSet(page.screenshots, added.userAgentAlias, added.snapshotPageUrl)])]
ApplyRemoved(acc, removed) ==
    IF acc.threw THEN acc
    ELSE IF ~ObjHas(acc.json, removed.htmlFilePath) THEN [acc EXCEPT !.threw = TRUE]
    ELSE LET page == ObjGet(acc.json, removed.htmlFilePath)
             screenshots == ObjDelete(page.screenshots, removed.userAgentAlias)
         IN IF ScreenshotsLengthIsZero(screenshots)
            THEN [acc EXCEPT !.json = ObjDelete(acc.json, removed.htmlFilePath)]
            ELSE [acc EXCEPT !.json = ObjSet(acc.json, removed.htmlFilePath,
                                             [page EXCEPT !.screenshots = screenshots])]
ForEach(acc, entries, Apply(_, _)) ==
    LET RECURSIVE Go(_, _)
        Go(a, es) == IF es = <<>> THEN a ELSE Go(Apply(a, Head(es)), Tail(es))
    IN Go(acc, entries)

\* writeFilteredToDisk_ with one filter list used for all three buckets.
writeFilteredToDisk_AnyBucket(reportJson, args, oldJsonData) ==
    LET all == args.approvedDiffs \cup args.approvedAdds \cup args.approvedRemoves
        a0 == [threw |-> FALSE, json |-> deepCloneJson_(oldJsonData)]
    IN ForEach(ForEach(ForEach(a0, FilterEntries(reportJson.diffs, all), ApplyDiff),
                       FilterEntries(reportJson.added, all), ApplyAdded),
               FilterEntries(reportJson.removed, all), ApplyRemoved)
\* The manifest writeFilteredToDisk_ hands to writeToDiskImpl_ (threw: a
\* TypeError ended the method before the write).
writeFilteredToDisk_(reportJson, args, oldJsonData) ==
    LET diffs == FilterEntries(reportJson.diffs, args.approvedDiffs)
        added == FilterEntries(reportJson.added, args.approvedAdds)
        removed == FilterEntries(reportJson.removed, args.approvedRemoves)
        a0 == [threw |-> FALSE, json |-> deepCloneJson_(oldJsonData)]
    IN ForEach(ForEach(ForEach(a0, diffs, ApplyDiff), added, ApplyAdded),
               removed, ApplyRemoved)

\* CliArgParser.hasAnyApprovalFilters: some --mdc-approve-* flag was given.
hasAnyApprovalFilters(args) ==
    args.approvedDiffs # {} \/ args.approvedAdds # {} \/ args.approvedRemoves # {}

\* What approveChanges hands to writeToDiskImpl_.
ApprovedJsonData(reportJson, args, oldJsonData) ==
    IF hasAnyApprovalFilters(args)
    THEN writeFilteredToDisk_(reportJson, args, oldJsonData)
    ELSE getJsonData_(reportJson, oldJsonData, args.hasAnyFilters)

\* -------------------------------------------------------------- ImageDiffer
\* rawMisMatchPercentage threshold of compareOneImage_, in 1/1000 percent.
MismatchThreshold == 10

AddedDiffObject(htmlFilePath, actualPage, e) ==
    [htmlFilePath |-> htmlFilePath, goldenPageUrl |-> Null,
     snapshotPageUrl |-> actualPage.publicUrl, userAgentAlias |-> e[1],
     actualImageUrl |-> e[2], expectedImageUrl |-> Null,
     diffImageBuffer |-> Null, diffImageUrl |-> Null]
\* A removed record with the image URL in the wrong field.
RemovedDiffObjectSwapped(htmlFilePath, expectedPage, e) ==
    [htmlFilePath |-> htmlFilePath, goldenPageUrl |-> expectedPage.publicUrl,
     snapshotPageUrl |-> Null, userAgentAlias |-> e[1],
     actualImageUrl |-> e[2], expectedImageUrl |-> Null,
     diffImageBuffer |-> Null, diffImageUrl |-> Null]
RemovedDiffObject(htmlFilePath, expectedPage, e) ==
    [htmlFilePath |-> htmlFilePath, goldenPageUrl |-> expectedPage.publicUrl,
     snapshotPageUrl |-> Null, userAgentAlias |-> e[1],
     actualImageUrl |-> Null, expectedImageUrl |-> e[2],
     diffImageBuffer |-> Null, diffImageUrl |-> Null]

\* A new page contributing no added screenshot.
NoActualScreenshotsAsDiffObjects(actualPage, htmlFilePath) == <<>>
getAllActualScreenshotsAsDiffObjects_(actualPage, htmlFilePath) ==
    [i \in 1..Len(actualPage.screenshots) |->
        AddedDiffObject(htmlFilePath, actualPage, actualPage.screenshots[i])]
\* The added screenshots of a page computed without the check against the
\* expected page.
getAddedWithoutExpectedCheck(expectedPage, actualPage, htmlFilePath) ==
    getAllActualScreenshotsAsDiffObjects_(actualPage, htmlFilePath)
getAddedActualScreenshotsAsDiffObjects_(expectedPage, actualPage, htmlFilePath) ==
    LET news == SelectSeq(actualPage.screenshots,
                          LAMBDA e : ~Truthy(ObjGet(expectedPage.screenshots, e[1])))
    IN [i \in 1..Len(news) |-> AddedDiffObject(htmlFilePath, actualPage, news[i])]
getAdded_(expectedSuite, actualSuite) ==
    Flatten([i \in 1..Len(actualSuite) |->
        IF ObjHas(expectedSuite, actualSuite[i][1])
        THEN getAddedActualScreenshotsAsDiffObjects_(
                 ObjGet(expectedSuite, actualSuite[i][1]), actualSuite[i][2], actualSuite[i][1])
        ELSE getAllActualScreenshotsAsDiffObjects_(actualSuite[i][2], actualSuite[i][1])])

getRemovedExpectedScreenshotsAsDiffObjects_(expectedPage, actualPage, htmlFilePath) ==
    LET olds == SelectSeq(expectedPage.screenshots,
                          LAMBDA e : ~Truthy(ObjGet(actualPage.screenshots, e[1])))
    IN [i \in 1..Len(olds) |-> RemovedDiffObject(htmlFilePath, expectedPage, olds[i])]
getAllExpectedScreenshotsAsDiffObjects_(expectedPage, htmlFilePath) ==
    [i \in 1..Len(expectedPage.screenshots) |->
        RemovedDiffObject(htmlFilePath, expectedPage, expectedPage.screenshots[i])]
getRemoved_(expectedSuite, actualSuite) ==
    Flatten([i \in 1..Len(expectedSuite) |->
        IF ObjHas(actualSuite, expectedSuite[i][1])
        THEN getRemovedExpectedScreenshotsAsDiffObjects_(
                 expectedSuite[i][2], ObjGet(actualSuite, expectedSuite[i][1]), expectedSuite[i][1])
        ELSE getAllExpectedScreenshotsAsDiffObjects_(expectedSuite[i][2], expectedSuite[i][1])])

\* The image promises compareOnePage_ creates for one page, in array order;
\* each is the pending comparison of one screenshot present in both pages
\* (order: its place in the order in which the comparisons completed;
\* invocations: how often compareOneImage_ was called for it).
compareOnePage_(htmlFilePath, actualPage, expectedPage) ==
    LET both == SelectSeq(actualPage.screenshots,
                          LAMBDA e : Truthy(ObjGet(expectedPage.screenshots, e[1])))
    IN [i \in 1..Len(both) |->
          [htmlFilePath |-> htmlFilePath, goldenPageUrl |-> expectedPage.publicUrl,
           snapshotPageUrl |-> actualPage.publicUrl, userAgentAlias |-> both[i][1],
           expectedImageUrl |-> ObjGet(expectedPage.screenshots, both[i][1]),
           actualImageUrl |-> both[i][2], diffImageUrl |-> Null,
           diffImageBuffer |-> Null, state |-> "pending", comparator |-> "pending",
           mismatch |-> 0, order |-> 0, invocations |-> 1]]
\* pageComparisonPromises of compareAllPages, flattened in array order.
PageComparisonPromises(actualSuite, expectedSuite) ==
    Flatten([i \in 1..Len(actualSuite) |->
        IF ObjHas(expectedSuite, actualSuite[i][1])
        THEN compareOnePage_(actualSuite[i][1], actualSuite[i][2],
                             ObjGet(expectedSuite, actualSuite[i][1]))
        ELSE <<>>])

\* A comparison that reports a diff image whatever the comparator answers.
compareOneImageAlwaysDiff(rawMisMatchPercentage) == DiffPng
\* A comparison that still takes a mismatch equal to the threshold as no diff.
compareOneImageAtMost(rawMisMatchPercentage) ==
    IF rawMisMatchPercentage <= MismatchThreshold THEN Null ELSE DiffPng
\* The buffer compareOneImage_ resolves with for a comparator answer.
compareOneImage_(rawMisMatchPercentage) ==
    IF rawMisMatchPercentage < MismatchThreshold THEN Null ELSE DiffPng

\* The image promise of compareOnePage_ once compareOneImage_ has settled:
\* .then((diffImageBuffer) => ({...}), (err) => Promise.reject(err)).
ImagePromiseFulfilled(c, diffImageBuffer) ==
    [c EXCEPT !.state = "fulfilled", !.diffImageBuffer = diffImageBuffer]
\* An onRejected callback that swallows the error and resolves.
ImagePromiseSwallowed(c) == [c EXCEPT !.state = "fulfilled", !.diffImageBuffer = Null]
ImagePromiseRejected(c) == [c EXCEPT !.state = "rejected"]

\* A comparator that orders by page only.
compareDiffsByPageOnly(a, b) == localeCompare(a.htmlFilePath, b.htmlFilePath)
compareDiffsForSorting(a, b) ==
    IF localeCompare(a.htmlFilePath, b.htmlFilePath) # 0
    THEN localeCompare(a.htmlFilePath, b.htmlFilePath)
    ELSE localeCompare(a.userAgentAlias, b.userAgentAlias)

\* The ImageDiffJson a fulfilled image promise resolves with.
DiffResult(c) ==
    [htmlFilePath |-> c.htmlFilePath, goldenPageUrl |-> c.goldenPageUrl,
     snapshotPageUrl |-> c.snapshotPageUrl, userAgentAlias |-> c.userAgentAlias,
     expectedImageUrl |-> c.expectedImageUrl, actualImageUrl |-> c.actualImageUrl,
     diffImageUrl |-> c.diffImageUrl, diffImageBuffer |-> c.diffImageBuffer]

\* A compareAllPages that files each result when its comparison completes
\* and returns the diffs and the unchanged results unsorted.
CompareAllPagesResultAsCompleted(tcs, actualSuite, expectedSuite, pageComparisonResults) ==
    LET n == Len(pageComparisonResults)
        results == [c \in 1..n |->
                       DiffResult(pageComparisonResults[
                           CHOOSE i \in 1..n : pageComparisonResults[i].order = c])]
    IN [diffs |-> SelectSeq(results, LAMBDA r : Truthy(r.diffImageBuffer)),
        added |-> SortBy(getAdded_(expectedSuite, actualSuite), compareDiffsForSorting),
        removed |-> SortBy(getRemoved_(expectedSuite, actualSuite), compareDiffsForSorting),
        unchanged |-> SelectSeq(results, LAMBDA r : ~Truthy(r.diffImageBuffer)),
        testCases |-> tcs]
\* The rest of compareAllPages once every page promise is fulfilled.
CompareAllPagesResult(tcs, actualSuite, expectedSuite, pageComparisonResults) ==
    LET results == [i \in 1..Len(pageComparisonResults) |->
                       DiffResult(pageComparisonResults[i])]
    IN [diffs |-> SortBy(SelectSeq(results, LAMBDA r : Truthy(r.diffImageBuffer)),
                         compareDiffsForSorting),
        added |-> SortBy(getAdded_(expectedSuite, actualSuite), compareDiffsForSorting),
        removed |-> SortBy(getRemoved_(expectedSuite, actualSuite), compareDiffsForSorting),
        unchanged |-> SortBy(SelectSeq(results, LAMBDA r : ~Truthy(r.diffImageBuffer)),
                             compareDiffsForSorting),
        testCases |-> tcs]

\* ------------------------------------------------------------------ state
VARIABLES
    goldenFile,                     \* content of golden.json at the diff base
    cachedGoldenJsonFromDiffBase_,  \* SnapshotStore's cache of the parsed diff base
    testCases,                      \* the run's test cases after captureAllPages
    comparisons,                    \* image promises of compareAllPages, array order
    compareAllPagesPromise,         \* "none", "pending", "fulfilled", "rejected"
    report,                         \* the ReportSuiteJson compareAllPages returned
    diffUploads,                    \* uploadOneDiffImage_ promise of each diff
    diffGoldenJsonPromise,          \* "none", "pending", "fulfilled", "rejected"
    diffError,                      \* rejection reason of diffGoldenJson
    cliArgs,                        \* CLI arguments of the approval run
    approvePromise,                 \* approveChanges: "none", "fulfilled", "rejected"
    goldenPathFile,                 \* the file at cliArgs.goldenPath
    assetFiles,                     \* glob result: relative paths of the test directory
    gitIgnored,                     \* relative paths git reports as ignored
    urlPatterns,                    \* cliArgs include/exclude URL patterns of the run
    uploads,                        \* uploadOneAsset_ calls, in uploadPromises order
    assetTestCases,                 \* the `testCases` array of uploadAllAssets
    uploadAllAssetsPromise,         \* state, rejection reason and value
    firstUploadFailure,             \* history: the first failure among the uploads
    captureTestCases,               \* the `testCases` array given to captureAllPages
    captures,                       \* captureOnePage_ calls, in capturePromises order
    captureLog,                     \* console.error lines of handleCapturePageFailure_
    captureAllPagesPromise,         \* state, rejection reason and value
    firstCaptureFailure,            \* history: the first page failure of the batch
    diffSource,                     \* what cliArgs_.parseDiffBase() resolves with
    sourceContents,                 \* golden.json content at each kind of source
    fromDiffBaseCalls,              \* fromDiffBase calls of one store, in call order
    sourceReads,                    \* history: the sources read, in read order
    jsonManifests,                  \* two manifests in memory, as stringify_ gets them
    jsonFileContents,               \* the strings stringify_ returned, in call order
    jsonLoaded,                     \* the manifest JSON.parse made of each string
    jsonStage,                      \* "built", "written", "loaded", "rewritten"
    osApiName,                      \* cbtResult.os.api_name, as characters
    browserApiName,                 \* cbtResult.browser.api_name, as characters
    browserFileName,                \* what getBrowserFileName_ returned, or Null
    reportFiles,                    \* the writeFile calls of uploadDiffReport, by file name
    diffReportHtml,                 \* generateHtml of uploadDiffReport: its stage
    uploadDiffReportPromise,        \* state and value of uploadDiffReport
    uploadDiffReportAwait,          \* the await uploadDiffReport is suspended at
    changelists,                    \* report page: the changelists with their checkboxes
    reportJsonUrl,                  \* report page: body[data-mdc-report-json-url]
    approvalCount,                  \* report page: text of #report-approval__total-count
    approveDisabled,                \* report page: the Approve button is disabled
    clipboardContent,               \* report page: text of the clipboard element
    noticeHidden,                   \* report page: the clipboard notice has the hidden class
    approvalClipboardNoticeTimer,   \* report.js: the timer id variable
    timers,                         \* report page: the pending setTimeout timers
    noticeShownAt,                  \* history: the times the notice was shown at
    clock                           \* report page: the time, in seconds

diffVars == <<goldenFile, cachedGoldenJsonFromDiffBase_, testCases, comparisons,
              compareAllPagesPromise, report, diffUploads, diffGoldenJsonPromise,
              diffError, cliArgs, approvePromise, goldenPathFile>>
uploadVars == <<assetFiles, gitIgnored, urlPatterns, uploads, assetTestCases,
                uploadAllAssetsPromise, firstUploadFailure>>
captureVars == <<captureTestCases, captures, captureLog, captureAllPagesPromise,
                 firstCaptureFailure>>
storeVars == <<diffSource, sourceContents, fromDiffBaseCalls, sourceReads>>
\* The diff variables the store's cache is not part of.
diffVarsButCache == <<goldenFile, testCases, comparisons, compareAllPagesPromise, report,
                      diffUploads, diffGoldenJsonPromise, diffError, cliArgs,
                      approvePromise, goldenPathFile>>
jsonVars == <<jsonManifests, jsonFileContents, jsonLoaded, jsonStage>>
nameVars == <<osApiName, browserApiName, browserFileName>>
docVars == <<reportFiles, diffReportHtml, uploadDiffReportPromise, uploadDiffReportAwait>>
pageVars == <<changelists, reportJsonUrl, approvalCount, approveDisabled, clipboardContent,
              noticeHidden, approvalClipboardNoticeTimer, timers, noticeShownAt, clock>>
vars == <<diffVars, uploadVars, captureVars, storeVars, jsonVars, nameVars, docVars, pageVars>>

NoReport == [diffs |-> <<>>, added |-> <<>>, removed |-> <<>>, unchanged |-> <<>>,
             testCases |-> <<>>]
NoError == [kind |-> "none", index |-> 0]
NoCache == [loaded |-> FALSE, json |-> <<>>]
NoPromise == [state |-> "none", reason |-> NoError, value |-> <<>>]
NoArgs == [approvedDiffs |-> {}, approvedAdds |-> {}, approvedRemoves |-> {},
           hasAnyFilters |-> FALSE]
NoFile == [written |-> FALSE, content |-> <<>>, writes |-> 0]
NoCaptureError == [kind |-> "none", index |-> 0, result |-> 0]
NoCapturePromise == [state |-> "none", reason |-> NoCaptureError, value |-> <<>>]
NoDiffSource == [publicUrl |-> Null, localFilePath |-> Null, gitRevision |-> Null,
                 diffBase |-> <<>>]
NoContents == [publicUrl |-> <<>>, localFilePath |-> <<>>, gitRevision |-> <<>>]

\* ------------------------------------------------------- initial scenarios
\* Where a (page, browser) screenshot exists: in the run only, in the baseline
\* only, in both with different image URLs, or in both with the same URL.
ShotStatuses == {"none", "actual", "golden", "both", "same"}
InActual(st, k) == st[k] \in {"actual", "both", "same"}
InGolden(st, k) == st[k] \in {"golden", "both", "same"}
ShotCount(st) ==
    Cardinality({k \in ShotKeys : InActual(st, k)}) + Cardinality({k \in ShotKeys : InGolden(st, k)})
Scenarios == {st \in [ShotKeys -> ShotStatuses] : ShotCount(st) <= MaxShots}
Orderings(ids) ==
    {o \in [1..Len(ids) -> {ids[i] : i \in 1..Len(ids)}] :
        \A i, j \in 1..Len(ids) : i # j => o[i] # o[j]}

\* UploadableTestCase of a page with its screenshot files in push order.
TestCaseOf(st, p, browserOrder) ==
    LET bs == SelectSeq(browserOrder, LAMBDA b : InActual(st, <<p, b>>))
    IN [htmlFile |-> [destinationRelativeFilePath |-> p,
                      publicUrl |-> PageUrl(BaseUploadDir, p)],
        screenshotImageFiles |->
            [i \in 1..Len(bs) |-> [userAgent |-> [alias |-> bs[i]],
                                   publicUrl |-> ImageUrl(BaseUploadDir, p, bs[i])]]]
TestCasesOf(st, pageOrder, browserOrder) ==
    LET ps == SelectSeq(pageOrder, LAMBDA p : \E b \in Browsers : InActual(st, <<p, b>>))
    IN [i \in 1..Len(ps) |-> TestCaseOf(st, ps[i], browserOrder)]
\* golden.json as SnapshotStore wrote it earlier: keys in sorted order.
GoldenOf(st) ==
    LET ps == SelectSeq(PageIds, LAMBDA p : \E b \in Browsers : InGolden(st, <<p, b>>))
        Dir(p, b) == IF st[<<p, b>>] = "same" THEN BaseUploadDir ELSE OldUploadDir
        PageDir(p) == IF \A b \in Browsers : InGolden(st, <<p, b>>) => st[<<p, b>>] = "same"
                      THEN BaseUploadDir ELSE OldUploadDir
        Shots(p) == LET bs == SelectSeq(BrowserIds, LAMBDA b : InGolden(st, <<p, b>>))
                    IN [i \in 1..Len(bs) |-> <<bs[i], ImageUrl(Dir(p, bs[i]), p, bs[i])>>]
    IN [i \in 1..Len(ps) |->
          <<ps[i], [publicUrl |-> PageUrl(PageDir(ps[i]), ps[i]), screenshots |-> Shots(ps[i])]>>]

InitDiff ==
    /\ \E st \in Scenarios, pageOrder \in Orderings(PageIds), browserOrder \in Orderings(BrowserIds) :
          /\ goldenFile = GoldenOf(st)
          /\ testCases = TestCasesOf(st, pageOrder, browserOrder)
    /\ cachedGoldenJsonFromDiffBase_ = NoCache
    /\ comparisons = <<>>
    /\ compareAllPagesPromise = "none"
    /\ report = NoReport
    /\ diffUploads = <<>>
    /\ diffGoldenJsonPromise = "none"
    /\ diffError = NoError
    /\ cliArgs = NoArgs
    /\ approvePromise = "none"
    /\ goldenPathFile = NoFile
\* No diff or approval run.
IdleDiff ==
    /\ goldenFile = <<>> /\ testCases = <<>>
    /\ cachedGoldenJsonFromDiffBase_ = NoCache
    /\ comparisons = <<>> /\ compareAllPagesPromise = "none"
    /\ report = NoReport /\ diffUploads = <<>>
    /\ diffGoldenJsonPromise = "none" /\ diffError = NoError
    /\ cliArgs = NoArgs /\ approvePromise = "none" /\ goldenPathFile = NoFile
\* No upload batch.
IdleUpload ==
    /\ assetFiles = <<>> /\ gitIgnored = {}
    /\ urlPatterns = [include |-> <<>>, exclude |-> <<>>]
    /\ uploads = <<>> /\ assetTestCases = <<>>
    /\ uploadAllAssetsPromise = NoPromise
    /\ firstUploadFailure = NoError

\* No capture batch.
IdleCapture ==
    /\ captureTestCases = <<>> /\ captures = <<>> /\ captureLog = <<>>
    /\ captureAllPagesPromise = NoCapturePromise
    /\ firstCaptureFailure = NoCaptureError
\* No store under observation.
IdleStore ==
    /\ diffSource = NoDiffSource /\ sourceContents = NoContents
    /\ fromDiffBaseCalls = <<>> /\ sourceReads = <<>>

\* No serialization under observation.
IdleJson ==
    /\ jsonManifests = <<>> /\ jsonFileContents = <<>>
    /\ jsonLoaded = <<>> /\ jsonStage = "none"

\* No file name asked for.
IdleName == osApiName = <<>> /\ browserApiName = <<>> /\ browserFileName = Null
\* No diff report being uploaded.
NoHtml == [reportJsonUrl |-> Null, snapshotJsonUrl |-> Null, changelists |-> <<>>]
IdleDoc ==
    /\ reportFiles = <<>> /\ diffReportHtml = NoHtml
    /\ uploadDiffReportPromise = [state |-> "none", value |-> Null]
    /\ uploadDiffReportAwait = "none"
\* No report page open.
\* Timer ids are positive; 0 stands for the undefined the variable starts with.
NoTimer == 0
IdlePage ==
    /\ changelists = <<>> /\ reportJsonUrl = Null
    /\ approvalCount = 0 /\ approveDisabled = FALSE
    /\ clipboardContent = "" /\ noticeHidden = TRUE
    /\ approvalClipboardNoticeTimer = NoTimer /\ timers = {}
    /\ noticeShownAt = <<>> /\ clock = 0
IdleFront == IdleName /\ IdleDoc /\ IdlePage

Init == InitDiff /\ IdleUpload /\ IdleCapture /\ IdleStore /\ IdleJson /\ IdleFront

\* ----------------------------------------------------- Controller: diffing
\* SnapshotStore.fromDiffBase: the cache after the call and the clone returned.
FromDiffBaseCache(cache, file) ==
    IF cache.loaded THEN cache ELSE [loaded |-> TRUE, json |-> JsonParse(file)]
fromDiffBase(cache, file) == deepCloneJson_(FromDiffBaseCache(cache, file).json)

AllFulfilled(cs) == \A i \in 1..Len(cs) : cs[i].state = "fulfilled"
AllDone(us) == \A i \in 1..Len(us) : us[i] = "done"

\* compareAllPages resumes after Promise.all and returns; diffGoldenJson then
\* issues one uploadOneDiffImage_ per diff and joins them.
CompareJoin(cs) ==
    LET r == CompareAllPagesResult(testCases, fromTestCases(testCases),
                 fromDiffBase(cachedGoldenJsonFromDiffBase_, goldenFile), cs)
    IN /\ compareAllPagesPromise' = "fulfilled"
       /\ report' = r
       /\ diffUploads' = [i \in 1..Len(r.diffs) |-> "pending"]
       /\ diffGoldenJsonPromise' = IF r.diffs = <<>> THEN "fulfilled" ELSE "pending"
       /\ diffError' = diffError

\* diffGoldenJson up to its first suspension inside compareAllPages.
DiffGoldenJson ==
    /\ diffGoldenJsonPromise = "none"
    /\ cachedGoldenJsonFromDiffBase_' =
          FromDiffBaseCache(cachedGoldenJsonFromDiffBase_, goldenFile)
    /\ LET cs == PageComparisonPromises(fromTestCases(testCases),
                    fromDiffBase(cachedGoldenJsonFromDiffBase_, goldenFile))
       IN /\ comparisons' = cs
          /\ IF cs = <<>> THEN CompareJoin(cs)
             ELSE /\ compareAllPagesPromise' = "pending"
                  /\ diffGoldenJsonPromise' = "pending"
                  /\ UNCHANGED <<report, diffUploads, diffError>>
    /\ UNCHANGED <<goldenFile, testCases, cliArgs, approvePromise, goldenPathFile>>
    /\ UNCHANGED <<uploadVars, captureVars, storeVars, jsonVars, nameVars, docVars, pageVars>>

\* fromDiffBase rejects (fetchGoldenJsonString_ failed): diffGoldenJson
\* rejects before compareAllPages is called.
DiffGoldenJsonFetchFails ==
    /\ diffGoldenJsonPromise = "none"
    /\ diffGoldenJsonPromise' = "rejected"
    /\ diffError' = [kind |-> "fetch", index |-> 0]
    /\ UNCHANGED <<goldenFile, cachedGoldenJsonFromDiffBase_, testCases, comparisons,
                   compareAllPagesPromise, report, diffUploads, cliArgs, approvePromise,
                   goldenPathFile>>
    /\ UNCHANGED <<uploadVars, captureVars, storeVars, jsonVars, nameVars, docVars, pageVars>>

\* Answers of the comparator for one pair of images.
Mismatches(c) ==
    IF c.actualImageUrl = c.expectedImageUrl THEN {0}
    ELSE {MismatchThreshold - 1, MismatchThreshold}

\* Promise.all of compareOnePage_ and of compareAllPages after image promise
\* i has settled: the first rejection rejects compareAllPages and with it
\* diffGoldenJson; the join runs when the last promise is fulfilled.
ComparisonSettled(i, cs) ==
    /\ comparisons' = cs
    /\ IF compareAllPagesPromise # "pending"
       THEN UNCHANGED <<compareAllPagesPromise, report, diffUploads,
                        diffGoldenJsonPromise, diffError>>
       ELSE IF cs[i].state = "rejected"
       THEN /\ compareAllPagesPromise' = "rejected"
            /\ diffGoldenJsonPromise' = "rejected"
            /\ diffError' = [kind |-> "compare", index |-> i]
            /\ UNCHANGED <<report, diffUploads>>
       ELSE IF AllFulfilled(cs) THEN CompareJoin(cs)
       ELSE UNCHANGED <<compareAllPagesPromise, report, diffUploads,
                        diffGoldenJsonPromise, diffError>>
    /\ UNCHANGED <<goldenFile, cachedGoldenJsonFromDiffBase_, testCases, cliArgs,
                   approvePromise, goldenPathFile>>
    /\ UNCHANGED <<uploadVars, captureVars, storeVars, jsonVars, nameVars, docVars, pageVars>>

\* How many comparisons have completed.
Completed(cs) == Cardinality({i \in 1..Len(cs) : cs[i].comparator # "pending"})

\* The comparator answers for image promise i.
CompareOneImageResolves(i, m) ==
    /\ compareAllPagesPromise # "none"
    /\ comparisons[i].comparator = "pending"
    /\ ComparisonSettled(i, [comparisons EXCEPT ![i] =
          ImagePromiseFulfilled([comparisons[i] EXCEPT !.comparator = "answered",
                                                       !.mismatch = m,
                                                       !.order = Completed(comparisons) + 1],
                                compareOneImage_(m))])

\* The image fetch or the comparator fails for image promise i.
CompareOneImageRejects(i) ==
    /\ compareAllPagesPromise # "none"
    /\ comparisons[i].comparator = "pending"
    /\ ComparisonSettled(i, [comparisons EXCEPT ![i] =
          ImagePromiseRejected([comparisons[i] EXCEPT !.comparator = "failed",
                                   !.order = Completed(comparisons) + 1])])

\* uploadOneDiffImage_ of diff i after its upload succeeded.
UploadOneDiffImageResolves(i) ==
    /\ i \in 1..Len(diffUploads)
    /\ diffUploads[i] = "pending"
    /\ diffUploads' = [diffUploads EXCEPT ![i] = "done"]
    /\ report' = [report EXCEPT
          !.diffs[i].diffImageUrl = DiffImageUrl(report.diffs[i].htmlFilePath,
                                                 report.diffs[i].userAgentAlias),
          !.diffs[i].diffImageBuffer = Null]
    /\ diffGoldenJsonPromise' =
          IF diffGoldenJsonPromise = "pending" /\ AllDone(diffUploads')
          THEN "fulfilled" ELSE diffGoldenJsonPromise
    /\ UNCHANGED <<goldenFile, cachedGoldenJsonFromDiffBase_, testCases, comparisons,
                   compareAllPagesPromise, diffError, cliArgs, approvePromise,
                   goldenPathFile>>
    /\ UNCHANGED <<uploadVars, captureVars, storeVars, jsonVars, nameVars, docVars, pageVars>>

\* A failed upload of diff image i that releases the buffer all the same.
UploadOneDiffImageRejectsReleasing(i) ==
    /\ i \in 1..Len(diffUploads)
    /\ diffUploads[i] = "pending"
    /\ diffUploads' = [diffUploads EXCEPT ![i] = "failed"]
    /\ report' = [report EXCEPT !.diffs[i].diffImageBuffer = Null]
    /\ IF diffGoldenJsonPromise = "pending"
       THEN /\ diffGoldenJsonPromise' = "rejected"
            /\ diffError' = [kind |-> "upload", index |-> i]
       ELSE UNCHANGED <<diffGoldenJsonPromise, diffError>>
    /\ UNCHANGED <<goldenFile, cachedGoldenJsonFromDiffBase_, testCases, comparisons,
                   compareAllPagesPromise, cliArgs, approvePromise, goldenPathFile>>
    /\ UNCHANGED <<uploadVars, captureVars, storeVars, jsonVars, nameVars, docVars, pageVars>>

\* The upload of diff image i fails: the first failure rejects diffGoldenJson.
UploadOneDiffImageRejects(i) ==
    /\ i \in 1..Len(diffUploads)
    /\ diffUploads[i] = "pending"
    /\ diffUploads' = [diffUploads EXCEPT ![i] = "failed"]
    /\ IF diffGoldenJsonPromise = "pending"
       THEN /\ diffGoldenJsonPromise' = "rejected"
            /\ diffError' = [kind |-> "upload", index |-> i]
       ELSE UNCHANGED <<diffGoldenJsonPromise, diffError>>
    /\ UNCHANGED <<goldenFile, cachedGoldenJsonFromDiffBase_, testCases, comparisons,
                   compareAllPagesPromise, report, cliArgs, approvePromise,
                   goldenPathFile>>
    /\ UNCHANGED <<uploadVars, captureVars, storeVars, jsonVars, nameVars, docVars, pageVars>>

\* -------------------------------------------------- SnapshotStore: approval
ApprovalFlags == {"diff", "added", "removed"} \X ShotKeys
RECURSIVE FlagSets(_)
FlagSets(n) ==
    IF n = 0 THEN {{}}
    ELSE FlagSets(n - 1) \cup {S \cup {f} : S \in FlagSets(n - 1), f \in ApprovalFlags}
ArgsOf(flags, anyFilters) ==
    [approvedDiffs |-> {f[2] : f \in {g \in flags : g[1] = "diff"}},
     approvedAdds |-> {f[2] : f \in {g \in flags : g[1] = "added"}},
     approvedRemoves |-> {f[2] : f \in {g \in flags : g[1] = "removed"}},
     hasAnyFilters |-> anyFilters]
\* Command lines of `screenshot:approve`: at most MaxApprovals approval flags,
\* and with none of them possibly an include/exclude filter.
ApprovalArgs ==
    {ArgsOf(flags, FALSE) : flags \in FlagSets(MaxApprovals)} \cup {ArgsOf({}, TRUE)}

\* writeToDiskImpl_: one fs.writeFile of the whole serialized manifest.
writeToDiskImpl_(file, jsonData) ==
    [written |-> TRUE, content |-> stringify_(jsonData), writes |-> file.writes + 1]
\* The file written although the merge threw.
ApprovedFileEager(file, result) == writeToDiskImpl_(file, result.json)
\* The file at goldenPath after the merge: a merge that threw never reaches
\* writeToDiskImpl_.
ApprovedFile(file, result) ==
    IF result.threw THEN file ELSE writeToDiskImpl_(file, result.json)

\* approveChanges of an approval run (a new process, hence an empty cache) on
\* the report.json of the finished diff.
ApproveChanges(args) ==
    /\ diffGoldenJsonPromise = "fulfilled"
    /\ approvePromise = "none"
    /\ cliArgs' = args
    /\ cachedGoldenJsonFromDiffBase_' = FromDiffBaseCache(NoCache, goldenFile)
    /\ LET result == ApprovedJsonData(report, args, fromDiffBase(NoCache, goldenFile))
       IN /\ approvePromise' = IF result.threw THEN "rejected" ELSE "fulfilled"
          /\ goldenPathFile' = ApprovedFile(goldenPathFile, result)
    /\ UNCHANGED <<goldenFile, testCases, comparisons, compareAllPagesPromise, report,
                   diffUploads, diffGoldenJsonPromise, diffError>>
    /\ UNCHANGED <<uploadVars, captureVars, storeVars, jsonVars, nameVars, docVars, pageVars>>

\* The report or the diff base cannot be fetched: approveChanges rejects.
ApproveChangesFetchFails ==
    /\ diffGoldenJsonPromise = "fulfilled"
    /\ approvePromise = "none"
    /\ approvePromise' = "rejected"
    /\ UNCHANGED <<goldenFile, cachedGoldenJsonFromDiffBase_, testCases, comparisons,
                   compareAllPagesPromise, report, diffUploads, diffGoldenJsonPromise,
                   diffError, cliArgs, goldenPathFile>>
    /\ UNCHANGED <<uploadVars, captureVars, storeVars, jsonVars, nameVars, docVars, pageVars>>

Next ==
    \/ DiffGoldenJson
    \/ DiffGoldenJsonFetchFails
    \/ \E i \in 1..Len(comparisons) : \E m \in Mismatches(comparisons[i]) :
          CompareOneImageResolves(i, m)
    \/ \E i \in 1..Len(comparisons) : CompareOneImageRejects(i)
    \/ \E i \in 1..Len(diffUploads) : UploadOneDiffImageResolves(i)
    \/ \E i \in 1..Len(diffUploads) : UploadOneDiffImageRejects(i)
    \/ \E args \in ApprovalArgs : ApproveChanges(args)
    \/ ApproveChangesFetchFails

Spec == Init /\ [][Next]_vars

\* The diff alone: diffGoldenJson up to its settlement, no approval run.
NextDiff ==
    \/ DiffGoldenJson
    \/ DiffGoldenJsonFetchFails
    \/ \E i \in 1..Len(comparisons) : \E m \in Mismatches(comparisons[i]) :
          CompareOneImageResolves(i, m)
    \/ \E i \in 1..Len(comparisons) : CompareOneImageRejects(i)
    \/ \E i \in 1..Len(diffUploads) : UploadOneDiffImageResolves(i)
    \/ \E i \in 1..Len(diffUploads) : UploadOneDiffImageRejects(i)
SpecDiff == Init /\ [][NextDiff]_vars

\* -------------------------------------------- SnapshotStore: the diff base
\* What parseDiffBase can resolve --mdc-diff-base to: each of the three
\* sources is there or null; diffBase is the raw argument, as characters.
RawDiffBases == {<<"?">>, <<"o", "/", "m">>}
DiffSources ==
    [publicUrl : {Null, "https://host/golden.json"},
     localFilePath : {Null, "test/screenshot/golden.json"},
     gitRevision : {Null, "origin/master:test/screenshot/golden.json"},
     diffBase : RawDiffBases]
\* golden.json as each source has it: three different manifests.
StoreContents ==
    [publicUrl |-> <<<<"mdc-a.html", [publicUrl |-> PageUrl(OldUploadDir, "mdc-a.html"),
        screenshots |-> <<<<"chrome", ImageUrl(OldUploadDir, "mdc-a.html", "chrome")>>>>]>>>>,
     localFilePath |-> <<<<"mdc-b.html", [publicUrl |-> PageUrl(OldUploadDir, "mdc-b.html"),
        screenshots |-> <<<<"firefox", ImageUrl(OldUploadDir, "mdc-b.html", "firefox")>>>>]>>>>,
     gitRevision |-> <<<<"mdc-a.html", [publicUrl |-> PageUrl(OldUploadDir, "mdc-a.html"),
        screenshots |-> <<<<"chrome", ImageUrl(OldUploadDir, "mdc-a.html", "chrome")>>,
                          <<"firefox", ImageUrl(OldUploadDir, "mdc-a.html", "firefox")>>>>]>>>>]

InitStore ==
    /\ diffSource \in DiffSources
    /\ sourceContents = StoreContents
    /\ fromDiffBaseCalls = <<>>
    /\ sourceReads = <<>>

\* A resolution that prefers the local file to the public URL.
ResolveSourceLocalFirst(source) ==
    IF Truthy(source.localFilePath) THEN "localFilePath"
    ELSE IF Truthy(source.publicUrl) THEN "publicUrl"
    ELSE IF Truthy(source.gitRevision) THEN "gitRevision"
    ELSE "none"
\* The source fetchGoldenJsonString_ reads ("none": it throws).
fetchGoldenJsonString_(source) ==
    IF Truthy(source.publicUrl) THEN "publicUrl"
    ELSE IF Truthy(source.localFilePath) THEN "localFilePath"
    ELSE IF Truthy(source.gitRevision) THEN "gitRevision"
    ELSE "none"

\* An error message that does not quote the argument.
UnableToParseErrorPlain(rawDiffBase) ==
    <<"Unable to parse '--mdc-diff-base'",
      ": Expected a URL, local file path, or git ref">>
\* The message of the Error fetchGoldenJsonString_ throws, as characters
\* (the fixed parts are kept as one element each).
UnableToParseError(rawDiffBase) ==
    <<"Unable to parse '--mdc-diff-base=">> \o rawDiffBase
        \o <<"': Expected a URL, local file path, or git ref">>

\* fromDiffBase returning the cached object itself.
ReturnedCacheItself(cache) == [alias |-> TRUE, json |-> cache.json]
\* What fromDiffBase returns: a deep clone of the cached object, which
\* shares nothing with it.
ReturnedManifest(cache) == [alias |-> FALSE, json |-> deepCloneJson_(cache.json)]

NoMessage == <<>>
\* A fromDiffBase call that has returned r (returned: the manifest as it was
\* at the return; seenMutations: how many returned manifests callers had
\* changed by then).
ReturnedCall(source, r) ==
    [stage |-> "returned", source |-> source, alias |-> r.alias, json |-> r.json,
     returned |-> r.json, mutated |-> FALSE, error |-> NoMessage,
     seenMutations |-> Cardinality({c \in 1..Len(fromDiffBaseCalls) :
                                       fromDiffBaseCalls[c].mutated})]
PendingCall(source) ==
    [stage |-> "fetching", source |-> source, alias |-> FALSE, json |-> <<>>,
     returned |-> <<>>, mutated |-> FALSE, error |-> NoMessage, seenMutations |-> 0]
RejectedCall(source, message) ==
    [stage |-> "rejected", source |-> source, alias |-> FALSE, json |-> <<>>,
     returned |-> <<>>, mutated |-> FALSE, error |-> message, seenMutations |-> 0]

\* A fromDiffBase call up to its first suspension: with a cache it returns a
\* clone; without one it resolves the source and starts reading it, or
\* throws when there is none.
FromDiffBaseCall ==
    /\ Len(fromDiffBaseCalls) < MaxCalls
    /\ LET source == fetchGoldenJsonString_(diffSource)
       IN IF cachedGoldenJsonFromDiffBase_.loaded
          THEN /\ fromDiffBaseCalls' = Append(fromDiffBaseCalls,
                     ReturnedCall("cache", ReturnedManifest(cachedGoldenJsonFromDiffBase_)))
               /\ UNCHANGED sourceReads
          ELSE IF source = "none"
          THEN /\ fromDiffBaseCalls' = Append(fromDiffBaseCalls,
                     RejectedCall(source, UnableToParseError(diffSource.diffBase)))
               /\ UNCHANGED sourceReads
          ELSE /\ fromDiffBaseCalls' = Append(fromDiffBaseCalls, PendingCall(source))
               /\ sourceReads' = Append(sourceReads, source)
    /\ UNCHANGED <<cachedGoldenJsonFromDiffBase_, diffSource, sourceContents>>
    /\ UNCHANGED <<diffVarsButCache, uploadVars, captureVars, jsonVars, nameVars, docVars, pageVars>>

\* The read of call c resolves: the parsed content becomes the cache and a
\* clone of it is returned.
FetchGoldenJsonResolves(c) ==
    /\ fromDiffBaseCalls[c].stage = "fetching"
    /\ LET cache == [loaded |-> TRUE,
                     json |-> JsonParse(sourceContents[fromDiffBaseCalls[c].source])]
       IN /\ cachedGoldenJsonFromDiffBase_' = cache
          /\ fromDiffBaseCalls' = [fromDiffBaseCalls EXCEPT
                ![c] = ReturnedCall(fromDiffBaseCalls[c].source, ReturnedManifest(cache))]
    /\ UNCHANGED <<diffSource, sourceContents, sourceReads>>
    /\ UNCHANGED <<diffVarsButCache, uploadVars, captureVars, jsonVars, nameVars, docVars, pageVars>>

\* The read of call c rejects: so does the call, and the cache stays empty.
FetchGoldenJsonRejects(c) ==
    /\ fromDiffBaseCalls[c].stage = "fetching"
    /\ fromDiffBaseCalls' = [fromDiffBaseCalls EXCEPT
          ![c] = RejectedCall(fromDiffBaseCalls[c].source, <<"read failed">>)]
    /\ UNCHANGED <<cachedGoldenJsonFromDiffBase_, diffSource, sourceContents, sourceReads>>
    /\ UNCHANGED <<diffVarsButCache, uploadVars, captureVars, jsonVars, nameVars, docVars, pageVars>>

\* Changes a caller or a merge makes to a manifest it was given.
ManifestMutations(json) ==
    {ObjSet(json, "mdc-b.html", [publicUrl |-> "mutated", screenshots |-> <<>>]),
     ObjDelete(json, json[1][1])}
\* The caller of call c changes the manifest it got; when that manifest is
\* the cached object, the cache changes.
CallerMutates(c) ==
    /\ fromDiffBaseCalls[c].stage = "returned"
    /\ ~fromDiffBaseCalls[c].mutated
    /\ \E m \in ManifestMutations(IF fromDiffBaseCalls[c].alias
                                  THEN cachedGoldenJsonFromDiffBase_.json
                                  ELSE fromDiffBaseCalls[c].json) :
          IF fromDiffBaseCalls[c].alias
          THEN /\ cachedGoldenJsonFromDiffBase_' =
                     [cachedGoldenJsonFromDiffBase_ EXCEPT !.json = m]
               /\ fromDiffBaseCalls' = [fromDiffBaseCalls EXCEPT ![c].mutated = TRUE,
                                                                  ![c].json = m]
          ELSE /\ fromDiffBaseCalls' = [fromDiffBaseCalls EXCEPT ![c].mutated = TRUE,
                                                                  ![c].json = m]
               /\ UNCHANGED cachedGoldenJsonFromDiffBase_
    /\ UNCHANGED <<diffSource, sourceContents, sourceReads>>
    /\ UNCHANGED <<diffVarsButCache, uploadVars, captureVars, jsonVars, nameVars, docVars, pageVars>>

NextStore ==
    \/ FromDiffBaseCall
    \/ \E c \in 1..Len(fromDiffBaseCalls) : FetchGoldenJsonResolves(c)
    \/ \E c \in 1..Len(fromDiffBaseCalls) : FetchGoldenJsonRejects(c)
    \/ \E c \in 1..Len(fromDiffBaseCalls) : CallerMutates(c)

InitStoreRun == IdleDiff /\ IdleUpload /\ IdleCapture /\ InitStore /\ IdleJson /\ IdleFront
SpecStore == InitStoreRun /\ [][NextStore]_vars

\* ------------------------------------------- approval against a moved base
\* The approval run reads report.json of an earlier diff and the diff base as
\* it is at approval time, which may have lost a screenshot since the diff.
MaxMergeShots == 3
MergeScenarios == {st \in Scenarios : ShotCount(st) <= MaxMergeShots}
\* The scenario with the screenshot k taken out of the baseline.
WithoutGolden(st, k) ==
    [st EXCEPT ![k] = IF st[k] \in {"both", "same"} THEN "actual"
                      ELSE IF st[k] = "golden" THEN "none" ELSE st[k]]
\* report.json of the diff of scenario st, the comparator having answered
\* mismatch[i] for image promise i and every diff image having been uploaded.
ReportOf(st, mismatch) ==
    LET tcs == TestCasesOf(st, PageIds, BrowserIds)
        actualSuite == fromTestCases(tcs)
        expectedSuite == JsonParse(GoldenOf(st))
        cs == PageComparisonPromises(actualSuite, expectedSuite)
        results == [i \in 1..Len(cs) |->
                       ImagePromiseFulfilled(cs[i], compareOneImage_(mismatch[i]))]
        r == CompareAllPagesResult(tcs, actualSuite, expectedSuite, results)
    IN [r EXCEPT !.diffs = [i \in 1..Len(r.diffs) |->
          [r.diffs[i] EXCEPT !.diffImageBuffer = Null,
                             !.diffImageUrl = DiffImageUrl(r.diffs[i].htmlFilePath,
                                                           r.diffs[i].userAgentAlias)]]]
InitMerge ==
    /\ \E st \in MergeScenarios :
          LET cs == PageComparisonPromises(fromTestCases(TestCasesOf(st, PageIds, BrowserIds)),
                                           JsonParse(GoldenOf(st)))
          IN \E mismatch \in [1..Len(cs) -> {0, MismatchThreshold - 1, MismatchThreshold}] :
             \E moved \in {st} \cup {WithoutGolden(st, k) : k \in ShotKeys} :
                /\ \A i \in 1..Len(cs) : mismatch[i] \in Mismatches(cs[i])
                /\ testCases = TestCasesOf(st, PageIds, BrowserIds)
                /\ report = ReportOf(st, mismatch)
                /\ goldenFile = GoldenOf(moved)
                /\ diffUploads = [i \in 1..Len(report.diffs) |-> "done"]
    /\ comparisons = <<>>
    /\ cachedGoldenJsonFromDiffBase_ = NoCache
    /\ compareAllPagesPromise = "fulfilled"
    /\ diffGoldenJsonPromise = "fulfilled"
    /\ diffError = NoError
    /\ cliArgs = NoArgs
    /\ approvePromise = "none"
    /\ goldenPathFile = NoFile

NextMerge ==
    \/ \E args \in ApprovalArgs : ApproveChanges(args)
    \/ ApproveChangesFetchFails

InitMergeRun == InitMerge /\ IdleUpload /\ IdleCapture /\ IdleStore /\ IdleJson /\ IdleFront
SpecMerge == InitMergeRun /\ [][NextMerge]_vars

\* ------------------------------------------------- Controller: asset upload
\* Paths and patterns are sequences of characters; Str gives the string.
RECURSIVE Str(_)
Str(cs) == IF cs = <<>> THEN "" ELSE Head(cs) \o Str(Tail(cs))
\* String.prototype.includes and endsWith.
Includes(s, sub) ==
    \E i \in 1..(Len(s) - Len(sub) + 1) : SubSeq(s, i, i + Len(sub) - 1) = sub
EndsWith(s, suffix) ==
    Len(suffix) <= Len(s) /\ SubSeq(s, Len(s) - Len(suffix) + 1, Len(s)) = suffix
\* RegExp.prototype.test of a pattern made of literal characters.
PatternTest(pattern, s) == Includes(s, pattern)

TestDir == <<"t">>
PathJoin(dir, rel) == dir \o <<"/">> \o rel
\* Files of the test directory, in the order glob.sync lists them.
AssetPathUniverse ==
    << <<"i", ".", "h", "t", "m", "l">>,
       <<"m", "d", "c", "-", "a", ".", "h", "t", "m", "l">>,
       <<"m", "d", "c", "-", "b", ".", "h", "t", "m", "l">>,
       <<"o", "u", "t", "/", "a", ".", "c", "s", "s">>,
       <<"m", "d", "c", "-", "a", ".", "c", "s", "s">> >>
AssetPathSet == {AssetPathUniverse[i] : i \in 1..Len(AssetPathUniverse)}
\* The --mdc-include-url and --mdc-exclude-url patterns of the runs.
PatternA == <<"-", "a">>
PatternB == <<"-", "b">>
PatternI == <<"i", ".">>
IncludeUrlPatterns == {<<>>, <<PatternA>>, <<PatternB, PatternA>>, <<PatternI>>}
ExcludeUrlPatterns == {<<>>, <<PatternA>>, <<PatternB>>}

InitUpload ==
    /\ \E S \in SUBSET AssetPathSet :
          /\ Cardinality(S) <= MaxAssets
          /\ assetFiles = SelectSeq(AssetPathUniverse, LAMBDA f : f \in S)
    /\ gitIgnored \in {{}, {AssetPathUniverse[3]}, {AssetPathUniverse[4]}}
    /\ urlPatterns \in [include : IncludeUrlPatterns, exclude : ExcludeUrlPatterns]
    /\ uploads = <<>>
    /\ assetTestCases = <<>>
    /\ uploadAllAssetsPromise = NoPromise
    /\ firstUploadFailure = NoError

\* filteredAssetFileRelativePaths of uploadAllAssets: git-ignored files are
\* left out unless their full path contains "/out/".
FilteredAssetFileRelativePaths(all, ignored) ==
    LET ignoredFullPaths ==
            {f \in {PathJoin(TestDir, rel) : rel \in ignored} :
                ~Includes(f, <<"/", "o", "u", "t", "/">>)}
    IN SelectSeq(all, LAMBDA rel : PathJoin(TestDir, rel) \notin ignoredFullPaths)

\* A test in which a matching include pattern overrides the exclude patterns.
IsTestPageIncludeWins(relativePath, patterns) ==
    LET isHtmlFile == /\ Includes(relativePath, <<"m", "d", "c", "-">>)
                      /\ EndsWith(relativePath, <<".", "h", "t", "m", "l">>)
        isIncluded == \E j \in 1..Len(patterns.include) :
                            PatternTest(patterns.include[j], relativePath)
        isExcluded == \E j \in 1..Len(patterns.exclude) :
                            PatternTest(patterns.exclude[j], relativePath)
    IN isHtmlFile /\ (isIncluded \/ (Len(patterns.include) = 0 /\ ~isExcluded))
\* The test of handleUploadOneAssetSuccess_ for adding a test case.
IsTestPage(relativePath, patterns) ==
    LET isHtmlFile == /\ Includes(relativePath, <<"m", "d", "c", "-">>)
                      /\ EndsWith(relativePath, <<".", "h", "t", "m", "l">>)
        isIncluded == \/ Len(patterns.include) = 0
                      \/ \E j \in 1..Len(patterns.include) :
                            PatternTest(patterns.include[j], relativePath)
        isExcluded == \E j \in 1..Len(patterns.exclude) :
                            PatternTest(patterns.exclude[j], relativePath)
    IN isHtmlFile /\ (isIncluded /\ ~isExcluded)
\* The `testCases` array after handleUploadOneAssetSuccess_.
handleUploadOneAssetSuccess_(relativePath, tcs, patterns) ==
    IF IsTestPage(relativePath, patterns)
    THEN Append(tcs, [htmlFile |-> [destinationRelativeFilePath |-> Str(relativePath),
                                    publicUrl |-> PageUrl(BaseUploadDir, Str(relativePath))],
                      screenshotImageFiles |-> <<>>])
    ELSE tcs
\* A failure handler that returns instead of rejecting.
handleUploadOneAssetFailureSwallowed(err) == [state |-> "fulfilled", reason |-> NoError]
\* The promise uploadOneAsset_ returns after handleUploadOneAssetFailure_.
handleUploadOneAssetFailure_(err) == [state |-> "rejected", reason |-> err]

\* uploadAllAssets up to Promise.all(uploadPromises): every uploadOneAsset_
\* call is started and suspends in fs.readFile.
UploadAllAssets ==
    /\ uploadAllAssetsPromise.state = "none"
    /\ LET files == FilteredAssetFileRelativePaths(assetFiles, gitIgnored)
       IN /\ uploads' = [i \in 1..Len(files) |->
                            [path |-> files[i], io |-> "reading", late |-> FALSE,
                             issued |-> 0,
                             promise |-> [state |-> "pending", reason |-> NoError]]]
          /\ uploadAllAssetsPromise' =
                IF files = <<>> THEN [state |-> "fulfilled", reason |-> NoError, value |-> <<>>]
                ELSE [state |-> "pending", reason |-> NoError, value |-> <<>>]
    /\ UNCHANGED <<assetFiles, gitIgnored, urlPatterns, assetTestCases, firstUploadFailure>>
    /\ UNCHANGED <<diffVars, captureVars, storeVars, jsonVars, nameVars, docVars, pageVars>>

\* gitRepo_.getIgnoredPaths rejects: uploadAllAssets rejects before any upload.
GetIgnoredPathsFails ==
    /\ uploadAllAssetsPromise.state = "none"
    /\ uploadAllAssetsPromise' =
          [state |-> "rejected", reason |-> [kind |-> "git", index |-> 0], value |-> <<>>]
    /\ UNCHANGED <<assetFiles, gitIgnored, urlPatterns, uploads, assetTestCases,
                   firstUploadFailure>>
    /\ UNCHANGED <<diffVars, captureVars, storeVars, jsonVars, nameVars, docVars, pageVars>>

\* Promise.all(uploadPromises).then(...) after uploadOneAsset_ call i settled.
UploadSettled(i, ups, tcs) ==
    /\ uploads' = ups
    /\ assetTestCases' = tcs
    /\ uploadAllAssetsPromise' =
          IF uploadAllAssetsPromise.state # "pending" THEN uploadAllAssetsPromise
          ELSE IF ups[i].promise.state = "rejected"
          THEN [state |-> "rejected", reason |-> ups[i].promise.reason, value |-> <<>>]
          ELSE IF \A j \in 1..Len(ups) : ups[j].promise.state = "fulfilled"
          THEN [state |-> "fulfilled", reason |-> NoError, value |-> tcs]
          ELSE uploadAllAssetsPromise
    /\ UNCHANGED <<assetFiles, gitIgnored, urlPatterns>>
    /\ UNCHANGED <<diffVars, captureVars, storeVars, jsonVars, nameVars, docVars, pageVars>>

RecordFailure(err) ==
    firstUploadFailure' = IF firstUploadFailure = NoError THEN err ELSE firstUploadFailure

\* fs.readFile of asset i succeeds: storage_.uploadFile is called (issued is
\* history: how often it was called for the asset).
ReadFileResolves(i) ==
    /\ uploads[i].io = "reading"
    /\ uploads' = [uploads EXCEPT ![i].io = "uploading", ![i].issued = @ + 1]
    /\ UNCHANGED <<assetFiles, gitIgnored, urlPatterns, assetTestCases,
                   uploadAllAssetsPromise, firstUploadFailure>>
    /\ UNCHANGED <<diffVars, captureVars, storeVars, jsonVars, nameVars, docVars, pageVars>>

\* fs.readFile of asset i fails: uploadOneAsset_ throws.
ReadFileRejects(i) ==
    /\ uploads[i].io = "reading"
    /\ LET err == [kind |-> "read", index |-> i]
       IN /\ RecordFailure(err)
          /\ UploadSettled(i, [uploads EXCEPT ![i].io = "readFailed",
                                 ![i].promise = [state |-> "rejected", reason |-> err]],
                           assetTestCases)

\* An upload whose continuation is dropped once the batch has settled.
UploadFileResolvesWhilePending(i) ==
    /\ uploads[i].io = "uploading"
    /\ uploadAllAssetsPromise.state = "pending"
    /\ UNCHANGED firstUploadFailure
    /\ UploadSettled(i, [uploads EXCEPT ![i].io = "uploaded",
                           ![i].promise = [state |-> "fulfilled", reason |-> NoError]],
                     handleUploadOneAssetSuccess_(uploads[i].path, assetTestCases, urlPatterns))
\* storage_.uploadFile of asset i succeeds. `late` is history: the batch
\* promise had settled before this upload did.
UploadFileResolves(i) ==
    /\ uploads[i].io = "uploading"
    /\ UNCHANGED firstUploadFailure
    /\ UploadSettled(i, [uploads EXCEPT ![i].io = "uploaded",
                           ![i].late = uploadAllAssetsPromise.state # "pending",
                           ![i].promise = [state |-> "fulfilled", reason |-> NoError]],
                     handleUploadOneAssetSuccess_(uploads[i].path, assetTestCases, urlPatterns))

\* A failed upload that is issued once more before it is given up.
UploadFileRejectsRetrying(i) ==
    /\ uploads[i].io = "uploading"
    /\ IF uploads[i].issued < 2
       THEN /\ uploads' = [uploads EXCEPT ![i].issued = @ + 1]
            /\ UNCHANGED <<assetFiles, gitIgnored, urlPatterns, assetTestCases,
                           uploadAllAssetsPromise, firstUploadFailure>>
            /\ UNCHANGED <<diffVars, captureVars, storeVars, jsonVars, nameVars, docVars, pageVars>>
       ELSE LET err == [kind |-> "upload", index |-> i]
            IN /\ RecordFailure(err)
               /\ UploadSettled(i, [uploads EXCEPT ![i].io = "uploadFailed",
                                      ![i].promise = handleUploadOneAssetFailure_(err)],
                                assetTestCases)
\* storage_.uploadFile of asset i fails.
UploadFileRejects(i) ==
    /\ uploads[i].io = "uploading"
    /\ LET err == [kind |-> "upload", index |-> i]
       IN /\ RecordFailure(err)
          /\ UploadSettled(i, [uploads EXCEPT ![i].io = "uploadFailed",
                                 ![i].promise = handleUploadOneAssetFailure_(err)],
                           assetTestCases)

NextUpload ==
    \/ UploadAllAssets
    \/ GetIgnoredPathsFails
    \/ \E i \in 1..Len(uploads) : ReadFileResolves(i)
    \/ \E i \in 1..Len(uploads) : ReadFileRejects(i)
    \/ \E i \in 1..Len(uploads) : UploadFileResolves(i)
    \/ \E i \in 1..Len(uploads) : UploadFileRejects(i)

InitUploadRun == IdleDiff /\ InitUpload /\ IdleCapture /\ IdleStore /\ IdleJson /\ IdleFront
SpecUpload == InitUploadRun /\ [][NextUpload]_vars

\* ---------------------------------------------------- Controller: capture
\* Test pages a capture batch can hold, and the test cases uploadAllAssets
\* resolved with for them (no screenshot yet).
CapturePageIds == PageIds \o <<"mdc-c.html">>
CaptureTestCase(p) ==
    [htmlFile |-> [destinationRelativeFilePath |-> p, publicUrl |-> PageUrl(BaseUploadDir, p)],
     screenshotImageFiles |-> <<>>]
CaptureBatches ==
    {[i \in 1..Len(ps) |-> CaptureTestCase(ps[i])] :
        ps \in {SelectSeq(CapturePageIds, LAMBDA p : p \in S) :
                   S \in {T \in SUBSET {CapturePageIds[i] : i \in 1..Len(CapturePageIds)} :
                             Cardinality(T) <= MaxPages}}}
\* cbtScreenshotInfo.versions[0].results of a page: one result per browser
\* CBT ran, whose images.chromeless is an image URL or null.
CbtResultLists ==
    {[j \in 1..Len(bs) |-> [browser |-> bs[j], chromeless |-> f[bs[j]]]] :
        bs \in {SelectSeq(BrowserIds, LAMBDA b : b \in S) : S \in SUBSET Browsers},
        f \in [Browsers -> {"image", Null}]}

InitCapture ==
    /\ captureTestCases \in CaptureBatches
    /\ captures = <<>> /\ captureLog = <<>>
    /\ captureAllPagesPromise = NoCapturePromise
    /\ firstCaptureFailure = NoCaptureError

\* A failure handler that logs and returns instead of rejecting.
handleCapturePageFailureSwallowed(testCase, err, testCaseQueueIndex, testCaseQueueLength) ==
    [log |-> <<[url |-> testCase.htmlFile.publicUrl, index |-> testCaseQueueIndex,
                length |-> testCaseQueueLength, err |-> err]>>,
     promise |-> [state |-> "fulfilled", reason |-> NoCaptureError]]
\* handleCapturePageFailure_: the lines it logs, then the promise it returns.
handleCapturePageFailure_(testCase, err, testCaseQueueIndex, testCaseQueueLength) ==
    [log |-> <<[url |-> testCase.htmlFile.publicUrl, index |-> testCaseQueueIndex,
                length |-> testCaseQueueLength, err |-> err]>>,
     promise |-> [state |-> "rejected", reason |-> err]]

\* uploadScreenshotImage_ up to its first await: it throws when the result
\* has no chromeless image (uploads is history: the storage_.uploadFile
\* calls made for the result).
uploadScreenshotImage_(cbtResult) ==
    [browser |-> cbtResult.browser, uploads |-> 0,
     stage |-> IF Truthy(cbtResult.chromeless) THEN "downloading" ELSE "failed"]
\* A handleCapturePageSuccess_ that does not wait for its uploads.
ResultsPromiseNotAwaited(i, results, failed, kind) ==
    IF failed # 0
    THEN [state |-> "rejected", reason |-> [kind |-> kind, index |-> i, result |-> failed]]
    ELSE [state |-> "fulfilled", reason |-> NoCaptureError]
\* Promise.all of handleCapturePageSuccess_ over the results of page i.
ResultsPromise(i, results, failed, kind) ==
    IF failed # 0
    THEN [state |-> "rejected", reason |-> [kind |-> kind, index |-> i, result |-> failed]]
    ELSE IF \A j \in 1..Len(results) : results[j].stage = "uploaded"
    THEN [state |-> "fulfilled", reason |-> NoCaptureError]
    ELSE [state |-> "pending", reason |-> NoCaptureError]

\* captureAllPages up to Promise.all(capturePromises) (requests is history:
\* the Screenshot.captureOneUrl calls made for the page).
CaptureAllPages ==
    /\ captureAllPagesPromise.state = "none"
    /\ captures' = [i \in 1..Len(captureTestCases) |->
                      [cbt |-> "pending", results |-> <<>>, requests |-> 1,
                       promise |-> [state |-> "pending", reason |-> NoCaptureError]]]
    /\ captureAllPagesPromise' =
          IF captureTestCases = <<>>
          THEN [state |-> "fulfilled", reason |-> NoCaptureError, value |-> captureTestCases]
          ELSE [state |-> "pending", reason |-> NoCaptureError, value |-> <<>>]
    /\ UNCHANGED <<captureTestCases, captureLog, firstCaptureFailure>>
    /\ UNCHANGED <<diffVars, uploadVars, storeVars, jsonVars, nameVars, docVars, pageVars>>

\* Promise.all(capturePromises).then(...) after something happened to page i:
\* `promise` is the state of its captureOnePage_ promise afterwards.
CaptureSettled(i, cs, tcs) ==
    LET was == captures[i].promise.state
        now == cs[i].promise
    IN /\ captures' = cs
       /\ captureTestCases' = tcs
       /\ firstCaptureFailure' =
             IF was = "pending" /\ now.state = "rejected" /\ firstCaptureFailure = NoCaptureError
             THEN now.reason ELSE firstCaptureFailure
       /\ captureAllPagesPromise' =
             IF captureAllPagesPromise.state # "pending" \/ was # "pending"
             THEN captureAllPagesPromise
             ELSE IF now.state = "rejected"
             THEN [state |-> "rejected", reason |-> now.reason, value |-> <<>>]
             ELSE IF \A k \in 1..Len(cs) : cs[k].promise.state = "fulfilled"
             THEN [state |-> "fulfilled", reason |-> NoCaptureError, value |-> tcs]
             ELSE captureAllPagesPromise
       /\ UNCHANGED <<diffVars, uploadVars, storeVars, jsonVars, nameVars, docVars, pageVars>>

\* The promise of page i after result `failed` (0: none) failed with `kind`;
\* a settled promise stays as it is.
PagePromiseAfter(i, results, failed, kind) ==
    IF captures[i].promise.state # "pending" THEN captures[i].promise
    ELSE ResultsPromise(i, results, failed, kind)

\* Screenshot.captureOneUrl of page i resolves with the results rs:
\* handleCapturePageSuccess_ starts one uploadScreenshotImage_ per result.
CaptureOneUrlResolves(i, rs) ==
    /\ captures[i].cbt = "pending"
    /\ LET results == [j \in 1..Len(rs) |-> uploadScreenshotImage_(rs[j])]
           thrown == {j \in 1..Len(rs) : results[j].stage = "failed"}
           failed == IF thrown = {} THEN 0 ELSE CHOOSE j \in thrown : \A k \in thrown : j <= k
       IN CaptureSettled(i, [captures EXCEPT ![i] =
                                [cbt |-> "resolved", results |-> results,
                                 requests |-> captures[i].requests,
                                 promise |-> PagePromiseAfter(i, results, failed, "chromeless")]],
                         captureTestCases)
    /\ UNCHANGED captureLog

\* Screenshot.captureOneUrl of page i rejects.
CaptureOneUrlRejects(i) ==
    /\ captures[i].cbt = "pending"
    /\ LET err == [kind |-> "capture", index |-> i, result |-> 0]
           h == handleCapturePageFailure_(captureTestCases[i], err, i - 1,
                                          Len(captureTestCases))
       IN /\ captureLog' = captureLog \o h.log
          /\ CaptureSettled(i, [captures EXCEPT ![i].cbt = "failed", ![i].promise = h.promise],
                            captureTestCases)

\* A continuation that writes back the file list it read when it started.
DownloadAndCropResolvesStale(i, j) ==
    /\ captures[i].results[j].stage = "downloading"
    /\ LET file == [userAgent |-> [alias |-> captures[i].results[j].browser],
                    publicUrl |-> Null]
       IN CaptureSettled(i, [captures EXCEPT ![i].results[j].stage = "uploading",
                                              ![i].results[j].uploads = @ + 1],
             [captureTestCases EXCEPT ![i].screenshotImageFiles = <<file>>])
    /\ UNCHANGED captureLog
\* downloadAndCropImage_ and fetchBrowserByApiName of result j of page i are
\* done: the image file is pushed to the test case and its upload started.
DownloadAndCropResolves(i, j) ==
    /\ captures[i].results[j].stage = "downloading"
    /\ LET file == [userAgent |-> [alias |-> captures[i].results[j].browser],
                    publicUrl |-> Null]
       IN CaptureSettled(i, [captures EXCEPT ![i].results[j].stage = "uploading",
                                              ![i].results[j].uploads = @ + 1],
             [captureTestCases EXCEPT ![i].screenshotImageFiles = Append(@, file)])
    /\ UNCHANGED captureLog

\* The download or the crop of result j of page i fails.
DownloadAndCropRejects(i, j) ==
    /\ captures[i].results[j].stage = "downloading"
    /\ LET results == [captures[i].results EXCEPT ![j].stage = "failed"]
       IN CaptureSettled(i, [captures EXCEPT ![i].results = results,
                                ![i].promise = PagePromiseAfter(i, results, j, "download")],
                         captureTestCases)
    /\ UNCHANGED captureLog

\* storage_.uploadFile of the screenshot of result j of page i succeeds.
ScreenshotUploadResolves(i, j) ==
    /\ captures[i].results[j].stage = "uploading"
    /\ LET results == [captures[i].results EXCEPT ![j].stage = "uploaded"]
           b == captures[i].results[j].browser
           p == captureTestCases[i].htmlFile.destinationRelativeFilePath
           files == captureTestCases[i].screenshotImageFiles
       IN CaptureSettled(i, [captures EXCEPT ![i].results = results,
                                ![i].promise = PagePromiseAfter(i, results, 0, "none")],
             [captureTestCases EXCEPT ![i].screenshotImageFiles =
                 [k \in 1..Len(files) |->
                     IF files[k].userAgent.alias = b
                     THEN [files[k] EXCEPT !.publicUrl = ImageUrl(BaseUploadDir, p, b)]
                     ELSE files[k]]])
    /\ UNCHANGED captureLog

\* storage_.uploadFile of the screenshot of result j of page i fails.
ScreenshotUploadRejects(i, j) ==
    /\ captures[i].results[j].stage = "uploading"
    /\ LET results == [captures[i].results EXCEPT ![j].stage = "failed"]
       IN CaptureSettled(i, [captures EXCEPT ![i].results = results,
                                ![i].promise = PagePromiseAfter(i, results, j, "upload")],
                         captureTestCases)
    /\ UNCHANGED captureLog

NextCapture ==
    \/ CaptureAllPages
    \/ \E i \in 1..Len(captures) : \E rs \in CbtResultLists : CaptureOneUrlResolves(i, rs)
    \/ \E i \in 1..Len(captures) : CaptureOneUrlRejects(i)
    \/ \E i \in 1..Len(captures) : \E j \in 1..Len(captures[i].results) :
          DownloadAndCropResolves(i, j)
    \/ \E i \in 1..Len(captures) : \E j \in 1..Len(captures[i].results) :
          DownloadAndCropRejects(i, j)
    \/ \E i \in 1..Len(captures) : \E j \in 1..Len(captures[i].results) :
          ScreenshotUploadResolves(i, j)
    \/ \E i \in 1..Len(captures) : \E j \in 1..Len(captures[i].results) :
          ScreenshotUploadRejects(i, j)

InitCaptureRun == IdleDiff /\ IdleUpload /\ InitCapture /\ IdleStore /\ IdleJson /\ IdleFront
SpecCapture == InitCaptureRun /\ [][NextCapture]_vars

\* ------------------------------------------- SnapshotStore: golden.json text
\* The string stringify_ returns, as a sequence of tokens: punctuation, one
\* token per two-space indentation unit and per line break, and one token
\* per quoted string.
Tok(t, v) == [t |-> t, v |-> v]
LBrace == Tok("{", "")
RBrace == Tok("}", "")
Colon == Tok(": ", "")
Comma == Tok(",", "")
NewLine == Tok("\\n", "")
IndentUnit == Tok("  ", "")
NullTok == Tok("null", "")
StrTok(s) == Tok("str", s)
Indents(level) == [i \in 1..level |-> IndentUnit]

\* A value rendered as null whatever it is.
RenderScalarAsNull(v) == <<NullTok>>
\* JSON.stringify of a property value of a manifest: a string or null.
RenderScalar(v) == IF v = Null THEN <<NullTok>> ELSE <<StrTok(v)>>
\* json-stable-stringify of an object at a nesting level with {space: '  '},
\* given its rendered `"key": value` items: {} when there is none.
RenderObject(items, level) ==
    IF items = <<>> THEN <<LBrace, RBrace>>
    ELSE <<LBrace>>
         \o Flatten([i \in 1..Len(items) |->
                (IF i > 1 THEN <<Comma>> ELSE <<>>)
                \o <<NewLine>> \o Indents(level + 1) \o items[i]])
         \o <<NewLine>> \o Indents(level) \o <<RBrace>>
\* The text of a manifest whose members are in the order they are written,
\* with the line break stringify_ appends.
JsonText(content) ==
    LET ShotItems(shots) ==
            [j \in 1..Len(shots) |->
                <<StrTok(shots[j][1]), Colon>> \o RenderScalar(shots[j][2])]
        PageItems(page) ==
            (IF page.publicUrl = Undefined THEN <<>>
             ELSE << <<StrTok("publicUrl"), Colon>> \o RenderScalar(page.publicUrl) >>)
            \o << <<StrTok("screenshots"), Colon>>
                    \o RenderObject(ShotItems(page.screenshots), 2) >>
        SuiteItems ==
            [i \in 1..Len(content) |->
                <<StrTok(content[i][1]), Colon>>
                    \o RenderObject(PageItems(content[i][2]), 1)]
    IN RenderObject(SuiteItems, 0) \o <<NewLine>>
\* stringify_ as a string.
StringifyText(jsonData) == JsonText(stringify_(jsonData))

\* JSON.parse of a text: white space is skipped, an object's members are
\* added in text order, a repeated name takes the last value.
IsWhiteSpace(tok) == tok.t \in {NewLine.t, IndentUnit.t}
RECURSIVE SkipWhiteSpace(_, _)
SkipWhiteSpace(text, i) ==
    IF i <= Len(text) /\ IsWhiteSpace(text[i]) THEN SkipWhiteSpace(text, i + 1) ELSE i
RECURSIVE ParseValue(_, _)
RECURSIVE ParseObjectMembers(_, _, _)
ParseValue(text, i) ==
    LET j == SkipWhiteSpace(text, i)
    IN IF text[j].t = "str" THEN [v |-> text[j].v, next |-> j + 1]
       ELSE IF text[j].t = NullTok.t THEN [v |-> Null, next |-> j + 1]
       ELSE ParseObjectMembers(text, SkipWhiteSpace(text, j + 1), <<>>)
ParseObjectMembers(text, i, acc) ==
    IF text[i].t = RBrace.t THEN [v |-> acc, next |-> i + 1]
    ELSE LET colon == SkipWhiteSpace(text, i + 1)
             val == ParseValue(text, colon + 1)
             after == SkipWhiteSpace(text, val.next)
             members == ObjSet(acc, text[i].v, val.v)
         IN IF text[after].t = Comma.t
            THEN ParseObjectMembers(text, SkipWhiteSpace(text, after + 1), members)
            ELSE ParseObjectMembers(text, after, members)
\* The parsed object as a manifest: the properties of each page.
JsonParseText(text) ==
    LET suite == ParseValue(text, 1).v
    IN [i \in 1..Len(suite) |->
          <<suite[i][1], [publicUrl |-> ObjGet(suite[i][2], "publicUrl"),
                          screenshots |-> ObjGet(suite[i][2], "screenshots")]>>]

\* Manifests in memory: every page has a location and, for each browser,
\* no screenshot, a screenshot at one of two locations or at null (a
\* screenshot that was not uploaded); a merge can leave a property named
\* "undefined" whose value is undefined.
MaxJsonShots == 2
JsonShotValues == {"absent", OldUploadDir, BaseUploadDir, Null}
JsonShapes ==
    {f \in [ShotKeys -> JsonShotValues] :
        Cardinality({k \in ShotKeys : f[k] # "absent"}) <= MaxJsonShots}
\* The manifest of a shape, its pages and browsers inserted in the given
\* orders; withUndefined adds the undefined-valued property to each page.
ManifestOf(f, pageOrder, browserOrder, withUndefined) ==
    LET ps == SelectSeq(pageOrder, LAMBDA p : \E b \in Browsers : f[<<p, b>>] # "absent")
        Shots(p) ==
            LET bs == SelectSeq(browserOrder, LAMBDA b : f[<<p, b>>] # "absent")
            IN [j \in 1..Len(bs) |->
                  <<bs[j], IF f[<<p, bs[j]>>] = Null THEN Null
                           ELSE ImageUrl(f[<<p, bs[j]>>], p, bs[j])>>]
               \o (IF withUndefined THEN << <<"undefined", Undefined>> >> ELSE <<>>)
    IN [i \in 1..Len(ps) |->
          <<ps[i], [publicUrl |-> PageUrl(OldUploadDir, ps[i]), screenshots |-> Shots(ps[i])]>>]
\* The shape with the screenshot k taken out or moved.
ShapeVariants(f) ==
    {f} \cup {[f EXCEPT ![k] = v] : k \in ShotKeys, v \in {"absent", BaseUploadDir}}

InitJson ==
    /\ \E f \in JsonShapes, g \in JsonShapes, u \in BOOLEAN,
          po \in Orderings(PageIds), bo \in Orderings(BrowserIds) :
          /\ g \in ShapeVariants(f)
          /\ jsonManifests = <<ManifestOf(f, PageIds, BrowserIds, FALSE),
                               ManifestOf(g, po, bo, u)>>
    /\ jsonFileContents = <<>>
    /\ jsonLoaded = <<>>
    /\ jsonStage = "built"

\* writeToDiskImpl_ up to fs.writeFile, for each manifest.
StringifyManifests ==
    /\ jsonStage = "built"
    /\ jsonFileContents' = [i \in 1..Len(jsonManifests) |-> StringifyText(jsonManifests[i])]
    /\ jsonStage' = "written"
    /\ UNCHANGED <<jsonManifests, jsonLoaded>>
    /\ UNCHANGED <<diffVars, uploadVars, captureVars, storeVars, nameVars, docVars, pageVars>>
\* fromDiffBase of a new process on each written file.
LoadManifests ==
    /\ jsonStage = "written"
    /\ jsonLoaded' = [i \in 1..Len(jsonFileContents) |->
                         deepCloneJson_(JsonParseText(jsonFileContents[i]))]
    /\ jsonStage' = "loaded"
    /\ UNCHANGED <<jsonManifests, jsonFileContents>>
    /\ UNCHANGED <<diffVars, uploadVars, captureVars, storeVars, nameVars, docVars, pageVars>>
\* The loaded manifests are serialized again; the strings are kept after
\* the first ones.
RestringifyManifests ==
    /\ jsonStage = "loaded"
    /\ jsonFileContents' =
          jsonFileContents \o [i \in 1..Len(jsonLoaded) |-> StringifyText(jsonLoaded[i])]
    /\ jsonStage' = "rewritten"
    /\ UNCHANGED <<jsonManifests, jsonLoaded>>
    /\ UNCHANGED <<diffVars, uploadVars, captureVars, storeVars, nameVars, docVars, pageVars>>

NextJson ==
    \/ StringifyManifests
    \/ LoadManifests
    \/ RestringifyManifests

InitJsonRun == IdleDiff /\ IdleUpload /\ IdleCapture /\ IdleStore /\ InitJson /\ IdleFront
SpecJson == InitJsonRun /\ [][NextJson]_vars

\* ================================================================= claims
SuiteKeys(suite) ==
    UNION {{<<suite[i][1], suite[i][2].screenshots[j][1]>> :
               j \in 1..Len(suite[i][2].screenshots)} : i \in 1..Len(suite)}
BucketKeys(bucket) == {<<bucket[i].htmlFilePath, bucket[i].userAgentAlias>> : i \in 1..Len(bucket)}
ShotAt(suite, k) ==
    IF ObjHas(suite, k[1]) THEN ObjGet(ObjGet(suite, k[1]).screenshots, k[2]) ELSE Undefined
ActualSuite == fromTestCases(testCases)
ExpectedSuite == JsonParse(goldenFile)
Approved == approvePromise = "fulfilled"
FilteredApproval == Approved /\ hasAnyApprovalFilters(cliArgs)
FullApproval == Approved /\ ~hasAnyApprovalFilters(cliArgs)
\* Report entries selected by the approval set of their own bucket.
ApprovedDiffKeys == BucketKeys(report.diffs) \cap cliArgs.approvedDiffs
ApprovedAddKeys == BucketKeys(report.added) \cap cliArgs.approvedAdds
ApprovedRemoveKeys == BucketKeys(report.removed) \cap cliArgs.approvedRemoves
AppliedKeys == ApprovedDiffKeys \cup ApprovedAddKeys \cup ApprovedRemoveKeys
EntryOf(bucket, k) ==
    bucket[CHOOSE i \in 1..Len(bucket) :
              bucket[i].htmlFilePath = k[1] /\ bucket[i].userAgentAlias = k[2]]

\* C1: the report of compareAllPages puts every (page, browser) key of the
\* actual or the expected manifest in exactly one of diffs, added, removed,
\* unchanged, once, and no bucket holds a key of neither manifest.
C1_BucketsPartitionKeys ==
    compareAllPagesPromise = "fulfilled" =>
        LET D == BucketKeys(report.diffs)
            A == BucketKeys(report.added)
            R == BucketKeys(report.removed)
            U == BucketKeys(report.unchanged)
        IN /\ D \cup A \cup R \cup U = SuiteKeys(ActualSuite) \cup SuiteKeys(ExpectedSuite)
           /\ D \cap A = {} /\ D \cap R = {} /\ D \cap U = {}
           /\ A \cap R = {} /\ A \cap U = {} /\ R \cap U = {}
           /\ Len(report.diffs) = Cardinality(D) /\ Len(report.added) = Cardinality(A)
           /\ Len(report.removed) = Cardinality(R)
           /\ Len(report.unchanged) = Cardinality(U)
C1_Witness ==
    /\ compareAllPagesPromise = "fulfilled"
    /\ report.diffs # <<>> /\ report.added # <<>> /\ report.removed # <<>>

\* C2: after a full-approval merge (no approval filters) the written baseline
\* holds, for every diff of the report, the diff's actual image location.
C2_FullApprovalAdoptsDiffs ==
    FullApproval =>
        \A i \in 1..Len(report.diffs) :
            ShotAt(goldenPathFile.content,
                   <<report.diffs[i].htmlFilePath, report.diffs[i].userAgentAlias>>)
                = report.diffs[i].actualImageUrl

\* C3: the baseline written by a merge has no page entry with an empty
\* screenshot map.
C3_NoEmptyPageWritten ==
    Approved =>
        \A i \in 1..Len(goldenPathFile.content) :
            goldenPathFile.content[i][2].screenshots # <<>>

\* C4: a filtered approval naming every diff, added and removed entry of the
\* report writes the same baseline as the full-approval merge of that report.
C4_AllFiltersEqualFullApproval ==
    (/\ FilteredApproval
     /\ cliArgs.approvedDiffs = BucketKeys(report.diffs)
     /\ cliArgs.approvedAdds = BucketKeys(report.added)
     /\ cliArgs.approvedRemoves = BucketKeys(report.removed))
    => goldenPathFile.content = stringify_(updateAllScreenshots_(report, ExpectedSuite).json)

\* C5 (as claimed): approving with no approval filter leaves the baseline as
\* it was loaded.
C5_NoFiltersLeaveBaseline ==
    FullApproval => goldenPathFile.content = stringify_(ExpectedSuite)
\* C5 (amended): approving with approval filters that select no entry of the
\* report (no approved pair is in its own bucket) writes the baseline as it
\* was loaded.
C5_UnmatchedFiltersLeaveBaseline ==
    (FilteredApproval /\ AppliedKeys = {})
    => goldenPathFile.content = stringify_(ExpectedSuite)
C5_Witness ==
    /\ FilteredApproval /\ AppliedKeys = {}
    /\ report.diffs # <<>> /\ cliArgs.approvedDiffs # {}
    /\ report.added # <<>>

\* C6: a filtered approval sets the baseline screenshot of every approved
\* diff and added entry to the entry's actual image location.
C6_ApprovedEntriesWriteImageUrl ==
    FilteredApproval =>
        /\ \A k \in ApprovedDiffKeys :
              ShotAt(goldenPathFile.content, k) = EntryOf(report.diffs, k).actualImageUrl
        /\ \A k \in ApprovedAddKeys :
              ShotAt(goldenPathFile.content, k) = EntryOf(report.added, k).actualImageUrl

\* C7: a filtered approval deletes the key of every approved removed entry,
\* and the page entry too when no screenshot of the page is left.
C7_ApprovedRemovesDelete ==
    FilteredApproval =>
        \A k \in ApprovedRemoveKeys :
            /\ ShotAt(goldenPathFile.content, k) = Undefined
            /\ ObjHas(goldenPathFile.content, k[1])
                  => ObjGet(goldenPathFile.content, k[1]).screenshots # <<>>

\* C8: a filtered approval changes only the keys of report entries approved
\* in their own bucket: every other key has the value it had in the baseline
\* (or stays absent), whatever the other buckets' approvals name.
C8_UnapprovedKeysUnchanged ==
    FilteredApproval =>
        \A k \in ShotKeys \ AppliedKeys :
            ShotAt(goldenPathFile.content, k) = ShotAt(ExpectedSuite, k)
C8_Witness ==
    /\ FilteredApproval
    /\ AppliedKeys # {}
    /\ \E k \in BucketKeys(report.diffs) \ AppliedKeys :
          k \in cliArgs.approvedAdds \cup cliArgs.approvedRemoves

\* C9: when a comparison fails, compareAllPages and diffGoldenJson reject
\* with the error of a failed comparison, no report is returned (not even
\* of the comparisons that succeeded) and no diff image is uploaded.
C9_CompareFailureFailsBatch ==
    (\E i \in 1..Len(comparisons) : comparisons[i].comparator = "failed") =>
        /\ compareAllPagesPromise = "rejected"
        /\ diffGoldenJsonPromise = "rejected"
        /\ report = NoReport
        /\ diffUploads = <<>>
        /\ diffError.kind = "compare"
        /\ comparisons[diffError.index].comparator = "failed"
C9_Witness ==
    /\ \E i \in 1..Len(comparisons) : comparisons[i].comparator = "failed"
    /\ \E i \in 1..Len(comparisons) :
          comparisons[i].comparator = "answered" /\ comparisons[i].diffImageBuffer = DiffPng

\* C10: when an asset upload fails, uploadAllAssets rejects with the error
\* of the first upload that failed, unchanged, and is never fulfilled,
\* whatever the other uploads do afterwards.
C10_FirstUploadFailureRejects ==
    /\ (firstUploadFailure # NoError) <=>
          (\E i \in 1..Len(uploads) : uploads[i].io \in {"readFailed", "uploadFailed"})
    /\ firstUploadFailure # NoError =>
          /\ uploadAllAssetsPromise.state = "rejected"
          /\ uploadAllAssetsPromise.reason = firstUploadFailure
          /\ uploadAllAssetsPromise.value = <<>>
C10_Witness ==
    /\ uploadAllAssetsPromise.state = "rejected"
    /\ \E i, j \in 1..Len(uploads) :
          /\ uploads[i].io = "uploadFailed" /\ uploads[j].io \in {"readFailed", "uploadFailed"}
          /\ i # j /\ uploadAllAssetsPromise.reason = uploads[j].promise.reason
    /\ \E k \in 1..Len(uploads) : uploads[k].io = "uploaded"
    /\ assetTestCases # <<>>

\* C11: when the capture of a test page fails, captureAllPages is rejected
\* with the error of the first page that failed and never resolves with the
\* test cases; the failed capture's page URL, queue position and queue
\* length are in the log by the time the rejection is there.
C11_CaptureFailureFailsBatch ==
    (\E i \in 1..Len(captures) : captures[i].cbt = "failed") =>
        /\ captureAllPagesPromise.state = "rejected"
        /\ captureAllPagesPromise.reason = firstCaptureFailure
        /\ captureAllPagesPromise.value = <<>>
        /\ \A i \in 1..Len(captures) :
              captures[i].cbt = "failed" =>
                  /\ captures[i].promise.state = "rejected"
                  /\ \E k \in 1..Len(captureLog) :
                        captureLog[k] =
                            [url |-> captureTestCases[i].htmlFile.publicUrl,
                             index |-> i - 1, length |-> Len(captureTestCases),
                             err |-> captures[i].promise.reason]
C11_Witness ==
    /\ captureAllPagesPromise.state = "rejected"
    /\ captureAllPagesPromise.reason.kind = "capture"
    /\ \E i, k \in 1..Len(captures) :
          /\ i # k /\ captures[i].cbt = "failed"
          /\ captureAllPagesPromise.reason.index = i
          /\ captures[k].promise.state = "fulfilled"
          /\ captureTestCases[k].screenshotImageFiles # <<>>

\* The diff and removed entries a merge applies: those approved in their own
\* bucket, or all of them in a full approval.
MergedEntryKeys ==
    IF hasAnyApprovalFilters(cliArgs) THEN ApprovedDiffKeys \cup ApprovedRemoveKeys
    ELSE BucketKeys(report.diffs) \cup BucketKeys(report.removed)
\* C12: a merge that applied a diff or removed entry whose page or browser
\* is absent from the baseline being merged has failed and has written
\* nothing: a merge that succeeds has no such entry.
C12_DanglingEntryFailsMerge ==
    Approved => \A k \in MergedEntryKeys : ShotAt(ExpectedSuite, k) # Undefined

\* C13: approveChanges writes the baseline file at most once, with the
\* serialization of the completely merged manifest, and leaves the file
\* untouched when the fetch of the report or of the baseline fails or the
\* merge throws.
C13_WriteOnceAfterMerge ==
    /\ goldenPathFile.writes <= 1
    /\ approvePromise \in {"none", "rejected"} => goldenPathFile = NoFile
    /\ Approved =>
          LET result == ApprovedJsonData(report, cliArgs, ExpectedSuite)
          IN /\ ~result.threw
             /\ goldenPathFile = [written |-> TRUE, content |-> stringify_(result.json),
                                  writes |-> 1]
C13_Witness ==
    /\ approvePromise = "rejected"
    /\ hasAnyApprovalFilters(cliArgs)
    /\ ApprovedJsonData(report, cliArgs, ExpectedSuite).threw
    /\ AppliedKeys # {}
    /\ goldenPathFile = NoFile

\* C14: over all the fromDiffBase calls of one store the diff base is read
\* at most once.
C14_FetchedAtMostOnce == Len(sourceReads) <= 1

\* The source the priority rule names for the diff source of the state.
PrioritySource ==
    IF diffSource.publicUrl # Null THEN "publicUrl"
    ELSE IF diffSource.localFilePath # Null THEN "localFilePath"
    ELSE IF diffSource.gitRevision # Null THEN "gitRevision"
    ELSE "none"
\* C15: every fromDiffBase call returns the manifest as it was loaded, and
\* the cache keeps it, whatever callers have done to the manifests returned
\* earlier.
C15_ReturnedCopiesIndependent ==
    /\ cachedGoldenJsonFromDiffBase_.loaded =>
          cachedGoldenJsonFromDiffBase_.json = JsonParse(sourceContents[PrioritySource])
    /\ \A c \in 1..Len(fromDiffBaseCalls) :
          fromDiffBaseCalls[c].stage = "returned" =>
              fromDiffBaseCalls[c].returned = JsonParse(sourceContents[PrioritySource])
C15_Witness ==
    \E c, d \in 1..Len(fromDiffBaseCalls) :
        /\ fromDiffBaseCalls[c].mutated
        /\ fromDiffBaseCalls[c].json # fromDiffBaseCalls[c].returned
        /\ fromDiffBaseCalls[d].stage = "returned"
        /\ fromDiffBaseCalls[d].source = "cache"
        /\ fromDiffBaseCalls[d].seenMutations > 0

\* C16: a load reads exactly one source, the public URL when there is one,
\* else the local file when there is one, else the git revision, and returns
\* the manifest of that source.
C16_SourcePriority ==
    /\ \A k \in 1..Len(sourceReads) : sourceReads[k] = PrioritySource
    /\ Len(sourceReads) =
          Cardinality({c \in 1..Len(fromDiffBaseCalls) :
                          fromDiffBaseCalls[c].source \notin {"cache", "none"}})
    /\ \A c \in 1..Len(fromDiffBaseCalls) :
          /\ fromDiffBaseCalls[c].source \in {"cache", PrioritySource}
          /\ fromDiffBaseCalls[c].stage = "returned" =>
                fromDiffBaseCalls[c].returned = JsonParse(sourceContents[PrioritySource])
C16_Witness ==
    /\ diffSource.publicUrl = Null
    /\ diffSource.localFilePath # Null /\ diffSource.gitRevision # Null
    /\ \E c \in 1..Len(fromDiffBaseCalls) :
          /\ fromDiffBaseCalls[c].stage = "returned"
          /\ fromDiffBaseCalls[c].source = "localFilePath"

\* C17: with no public URL, no local file path and no git revision every
\* load fails with an error whose message contains the raw --mdc-diff-base
\* argument; nothing is read, cached or returned.
C17_UnresolvableSourceFails ==
    PrioritySource = "none" =>
        /\ sourceReads = <<>>
        /\ ~cachedGoldenJsonFromDiffBase_.loaded
        /\ \A c \in 1..Len(fromDiffBaseCalls) :
              /\ fromDiffBaseCalls[c].stage = "rejected"
              /\ fromDiffBaseCalls[c].returned = <<>>
              /\ Includes(fromDiffBaseCalls[c].error, diffSource.diffBase)
C17_Witness ==
    /\ PrioritySource = "none"
    /\ diffSource.diffBase = <<"o", "/", "m">>
    /\ Len(fromDiffBaseCalls) > 1
    /\ fromDiffBaseCalls[1].stage = "rejected"

\* The run's manifest and the baseline are the same manifest.
SameManifest == stringify_(ActualSuite) = stringify_(ExpectedSuite)
\* C18: comparing a manifest with itself, the comparator answering below
\* the threshold, gives empty diffs, added and removed buckets and an
\* unchanged bucket holding every key of the manifest exactly once.
C18_SelfCompareAllUnchanged ==
    (/\ compareAllPagesPromise = "fulfilled"
     /\ SameManifest
     /\ \A i \in 1..Len(comparisons) : comparisons[i].mismatch < MismatchThreshold)
    => /\ report.diffs = <<>> /\ report.added = <<>> /\ report.removed = <<>>
       /\ BucketKeys(report.unchanged) = SuiteKeys(ActualSuite)
       /\ Len(report.unchanged) = Cardinality(SuiteKeys(ActualSuite))
C18_Witness ==
    /\ compareAllPagesPromise = "fulfilled"
    /\ SameManifest
    /\ Len(ActualSuite) > 1
    /\ Len(report.unchanged) > 1

\* C19: the added bucket holds exactly the keys of the actual manifest that
\* the expected manifest lacks, each once, with the actual image location
\* and a null expected image location.
C19_AddedBucketExact ==
    compareAllPagesPromise = "fulfilled" =>
        /\ BucketKeys(report.added) = SuiteKeys(ActualSuite) \ SuiteKeys(ExpectedSuite)
        /\ Len(report.added) = Cardinality(BucketKeys(report.added))
        /\ \A i \in 1..Len(report.added) :
              /\ report.added[i].actualImageUrl =
                    ShotAt(ActualSuite, <<report.added[i].htmlFilePath,
                                          report.added[i].userAgentAlias>>)
              /\ report.added[i].expectedImageUrl = Null
C19_Witness ==
    /\ compareAllPagesPromise = "fulfilled"
    /\ \E i, j \in 1..Len(report.added) :
          /\ ~ObjHas(ExpectedSuite, report.added[i].htmlFilePath)
          /\ Len(ObjGet(ActualSuite, report.added[i].htmlFilePath).screenshots) > 1
          /\ ObjHas(ExpectedSuite, report.added[j].htmlFilePath)

\* C20: the removed bucket holds exactly the keys of the expected manifest
\* that the actual manifest lacks, each once, with the expected image
\* location and a null actual image location.
C20_RemovedBucketExact ==
    compareAllPagesPromise = "fulfilled" =>
        /\ BucketKeys(report.removed) = SuiteKeys(ExpectedSuite) \ SuiteKeys(ActualSuite)
        /\ Len(report.removed) = Cardinality(BucketKeys(report.removed))
        /\ \A i \in 1..Len(report.removed) :
              /\ report.removed[i].expectedImageUrl =
                    ShotAt(ExpectedSuite, <<report.removed[i].htmlFilePath,
                                            report.removed[i].userAgentAlias>>)
              /\ report.removed[i].actualImageUrl = Null
C20_Witness ==
    /\ compareAllPagesPromise = "fulfilled"
    /\ \E i, j \in 1..Len(report.removed) :
          /\ ~ObjHas(ActualSuite, report.removed[i].htmlFilePath)
          /\ Len(ObjGet(ExpectedSuite, report.removed[i].htmlFilePath).screenshots) > 1
          /\ ObjHas(ActualSuite, report.removed[j].htmlFilePath)

\* The (page, browser) pairs both manifests hold.
KeysInBoth == SuiteKeys(ActualSuite) \cap SuiteKeys(ExpectedSuite)
ComparisonKeys == {<<comparisons[i].htmlFilePath, comparisons[i].userAgentAlias>> :
                      i \in 1..Len(comparisons)}
\* C21: every pair present in both manifests is compared, and is in the
\* unchanged bucket exactly when the comparator's mismatch is strictly below
\* the threshold and in the diffs bucket otherwise (a mismatch equal to the
\* threshold is a diff); a diff record holds the diff image (until its upload
\* has replaced it by the image's URL), an unchanged record holds no diff
\* image and no diff URL, and both hold the non-null image locations of the
\* two manifests.
C21_ThresholdClassifies ==
    compareAllPagesPromise = "fulfilled" =>
        /\ ComparisonKeys = KeysInBoth
        /\ \A i \in 1..Len(comparisons) :
              LET k == <<comparisons[i].htmlFilePath, comparisons[i].userAgentAlias>>
              IN /\ k \in BucketKeys(report.unchanged)
                       <=> comparisons[i].mismatch < MismatchThreshold
                 /\ k \in BucketKeys(report.diffs)
                       <=> comparisons[i].mismatch >= MismatchThreshold
        /\ \A i \in 1..Len(report.diffs) :
              \/ report.diffs[i].diffImageBuffer = DiffPng
              \/ diffUploads[i] = "done" /\ report.diffs[i].diffImageUrl # Null
        /\ \A i \in 1..Len(report.unchanged) :
              /\ report.unchanged[i].diffImageBuffer = Null
              /\ report.unchanged[i].diffImageUrl = Null
        /\ \A b \in {report.diffs, report.unchanged} : \A i \in 1..Len(b) :
              LET k == <<b[i].htmlFilePath, b[i].userAgentAlias>>
              IN /\ b[i].actualImageUrl = ShotAt(ActualSuite, k)
                 /\ b[i].expectedImageUrl = ShotAt(ExpectedSuite, k)
                 /\ b[i].actualImageUrl \notin {Null, Undefined}
                 /\ b[i].expectedImageUrl \notin {Null, Undefined}
C21_Witness ==
    /\ compareAllPagesPromise = "fulfilled"
    /\ \E i, j \in 1..Len(comparisons) :
          /\ comparisons[i].mismatch = MismatchThreshold
          /\ comparisons[j].mismatch = MismatchThreshold - 1
          /\ comparisons[j].actualImageUrl # comparisons[j].expectedImageUrl
    /\ \E i \in 1..Len(report.diffs) : report.diffs[i].diffImageBuffer = DiffPng
    /\ report.unchanged # <<>>

\* Record a comes before record b in (pageId, browserId) order.
KeyBefore(a, b) ==
    \/ KeyRank(a.htmlFilePath) < KeyRank(b.htmlFilePath)
    \/ /\ a.htmlFilePath = b.htmlFilePath
       /\ KeyRank(a.userAgentAlias) < KeyRank(b.userAgentAlias)
StrictlyAscending(bucket) ==
    \A i, j \in 1..Len(bucket) : i < j => KeyBefore(bucket[i], bucket[j])
\* C22: in the report compareAllPages returns each of diffs, added, removed
\* and unchanged is in strictly ascending (pageId, browserId) order: sorted
\* by page, then by browser, with no key twice in a bucket.
C22_BucketsSorted ==
    compareAllPagesPromise = "fulfilled" =>
        /\ StrictlyAscending(report.diffs)
        /\ StrictlyAscending(report.added)
        /\ StrictlyAscending(report.removed)
        /\ StrictlyAscending(report.unchanged)
C22_Witness ==
    /\ compareAllPagesPromise = "fulfilled"
    /\ Len(report.added) > 2
    /\ Len(report.diffs) + Len(report.unchanged) + Len(report.removed) > 0
    /\ testCases[1].htmlFile.destinationRelativeFilePath = "mdc-b.html"
    /\ Len(testCases[1].screenshotImageFiles) > 1
    /\ testCases[1].screenshotImageFiles[1].userAgent.alias = "firefox"

\* Every (page, browser) key, in ascending order.
AllKeysInOrder ==
    [n \in 1..(Len(PageIds) * Len(BrowserIds)) |->
        <<PageIds[((n - 1) \div Len(BrowserIds)) + 1],
          BrowserIds[((n - 1) % Len(BrowserIds)) + 1]>>]
\* The comparator's answer for a compared key.
AnswerAt(k) ==
    comparisons[CHOOSE i \in 1..Len(comparisons) :
                   /\ comparisons[i].htmlFilePath = k[1]
                   /\ comparisons[i].userAgentAlias = k[2]].mismatch
\* The bucket the manifests and the comparator's answers put a key in.
BucketOf(k) ==
    IF k \in KeysInBoth
    THEN IF AnswerAt(k) < MismatchThreshold THEN "unchanged" ELSE "diffs"
    ELSE IF k \in SuiteKeys(ActualSuite) THEN "added"
    ELSE IF k \in SuiteKeys(ExpectedSuite) THEN "removed"
    ELSE "none"
\* The record of a key as the manifests and the answers determine it.
RecordOf(k) ==
    LET kind == BucketOf(k)
    IN [htmlFilePath |-> k[1], userAgentAlias |-> k[2],
        goldenPageUrl |-> IF kind = "added" THEN Null
                          ELSE ObjGet(ExpectedSuite, k[1]).publicUrl,
        snapshotPageUrl |-> IF kind = "removed" THEN Null
                            ELSE ObjGet(ActualSuite, k[1]).publicUrl,
        expectedImageUrl |-> IF kind = "added" THEN Null ELSE ShotAt(ExpectedSuite, k),
        actualImageUrl |-> IF kind = "removed" THEN Null ELSE ShotAt(ActualSuite, k),
        diffImageUrl |-> Null,
        diffImageBuffer |-> IF kind = "diffs" THEN DiffPng ELSE Null]
DeterminedBucket(kind) ==
    LET ks == SelectSeq(AllKeysInOrder, LAMBDA k : BucketOf(k) = kind)
    IN [i \in 1..Len(ks) |-> RecordOf(ks[i])]
\* The diffs as compareAllPages returned them: the upload of a diff image
\* later puts the image's URL in the place of the buffer.
ReturnedDiffs ==
    [i \in 1..Len(report.diffs) |->
        IF diffUploads[i] = "done"
        THEN [report.diffs[i] EXCEPT !.diffImageUrl = Null, !.diffImageBuffer = DiffPng]
        ELSE report.diffs[i]]
\* C23: the report compareAllPages returns is determined by the two
\* manifests and the comparator's answers alone: whatever the order in
\* which the comparisons completed, each bucket holds the same records in
\* the same order, and the test cases are those given.
C23_ReportIndependentOfCompletionOrder ==
    compareAllPagesPromise = "fulfilled" =>
        /\ ReturnedDiffs = DeterminedBucket("diffs")
        /\ report.added = DeterminedBucket("added")
        /\ report.removed = DeterminedBucket("removed")
        /\ report.unchanged = DeterminedBucket("unchanged")
        /\ report.testCases = testCases
C23_Witness ==
    /\ compareAllPagesPromise = "fulfilled"
    /\ Len(comparisons) > 1
    /\ comparisons[1].order > comparisons[2].order
    /\ Len(report.diffs) > 1

\* A full-approval merge: no approval flag and no include or exclude filter.
FullMerge == FullApproval /\ ~cliArgs.hasAnyFilters
PageHasRecordedDiff(p) == \E i \in 1..Len(report.diffs) : report.diffs[i].htmlFilePath = p
\* C24: after a full-approval merge a page of both the baseline and the new
\* manifest has the baseline's page location when no diff is recorded for
\* any of its browsers, and the new manifest's page location when a diff is
\* recorded for at least one of them.
C24_PageLocationFollowsDiffs ==
    FullMerge =>
        \A p \in ObjKeySet(ActualSuite) \cap ObjKeySet(ExpectedSuite) :
            ObjGet(goldenPathFile.content, p).publicUrl =
                IF PageHasRecordedDiff(p) THEN ObjGet(ActualSuite, p).publicUrl
                ELSE ObjGet(ExpectedSuite, p).publicUrl

\* The pairs of the new manifest for which the report records no diff.
PairsWithoutDiff == SuiteKeys(ActualSuite) \ BucketKeys(report.diffs)
\* C25 (as claimed): after a full-approval merge the written baseline holds,
\* for every pair of the new manifest with no diff recorded, the new
\* manifest's image location.
C25_NoDiffPairsTakeNewLocation ==
    FullMerge =>
        \A k \in PairsWithoutDiff :
            ShotAt(goldenPathFile.content, k) = ShotAt(ActualSuite, k)
\* C25 (amended): after a full-approval merge the written baseline holds, for
\* every pair of the new manifest with no diff recorded, the baseline's image
\* location when the baseline has the pair and the new manifest's image
\* location when it does not.
C25_NoDiffPairsKeepBaselineLocation ==
    FullMerge =>
        \A k \in PairsWithoutDiff :
            ShotAt(goldenPathFile.content, k) =
                IF k \in SuiteKeys(ExpectedSuite) THEN ShotAt(ExpectedSuite, k)
                ELSE ShotAt(ActualSuite, k)
C25_Witness ==
    /\ FullMerge
    /\ \E k \in PairsWithoutDiff \cap SuiteKeys(ExpectedSuite) :
          ShotAt(ActualSuite, k) # ShotAt(ExpectedSuite, k)
    /\ PairsWithoutDiff \ SuiteKeys(ExpectedSuite) # {}

\* Two manifests hold the same value under every key: the same pages with
\* the same location, and the same value for every browser of either.
SameKeyByKey(a, b) ==
    /\ ObjKeySet(a) = ObjKeySet(b)
    /\ \A p \in ObjKeySet(a) :
          /\ ObjGet(a, p).publicUrl = ObjGet(b, p).publicUrl
          /\ \A k \in ObjKeySet(ObjGet(a, p).screenshots)
                         \cup ObjKeySet(ObjGet(b, p).screenshots) :
                ObjGet(ObjGet(a, p).screenshots, k) = ObjGet(ObjGet(b, p).screenshots, k)
\* The keys of a parsed text are in ascending order at both levels.
KeysAscending(suite) ==
    /\ \A i, j \in 1..Len(suite) : i < j => KeyRank(suite[i][1]) < KeyRank(suite[j][1])
    /\ \A i \in 1..Len(suite) :
          LET shots == suite[i][2].screenshots
          IN \A j, k \in 1..Len(shots) :
                j < k => KeyRank(shots[j][1]) < KeyRank(shots[k][1])
\* The text ends with exactly one line break, after the closing brace.
OneTrailingNewline(text) ==
    /\ Len(text) > 1
    /\ text[Len(text)] = NewLine
    /\ text[Len(text) - 1] = RBrace
\* C26: two manifests equal key by key are serialized to the same string,
\* whatever the insertion order of their pages and browsers; the string has
\* its keys in ascending order and ends with one line break; and the string
\* of a manifest loaded from a serialized baseline is that baseline's string.
C26_SerializationCanonical ==
    jsonStage \in {"written", "loaded", "rewritten"} =>
        /\ SameKeyByKey(jsonManifests[1], jsonManifests[2])
              => jsonFileContents[1] = jsonFileContents[2]
        /\ \A i \in 1..Len(jsonFileContents) :
              /\ KeysAscending(JsonParseText(jsonFileContents[i]))
              /\ OneTrailingNewline(jsonFileContents[i])
        /\ jsonStage = "rewritten" =>
              \A i \in 1..Len(jsonManifests) :
                  jsonFileContents[Len(jsonManifests) + i] = jsonFileContents[i]
C26_Witness ==
    /\ jsonStage = "rewritten"
    /\ SameKeyByKey(jsonManifests[1], jsonManifests[2])
    /\ Len(jsonManifests[2]) > 1
    /\ jsonManifests[2][1][1] = "mdc-b.html"
    /\ ObjHas(jsonManifests[2][1][2].screenshots, "undefined")
    /\ jsonManifests[1] # jsonManifests[2]

\* C27: the manifest loaded from the serialized form of a manifest m equals
\* m key by key, and its own serialized form is the string it was loaded
\* from; parsing the text gives what parsing the written members gives.
C27_RoundTrip ==
    /\ jsonStage \in {"loaded", "rewritten"} =>
          \A i \in 1..Len(jsonManifests) :
              /\ SameKeyByKey(jsonLoaded[i], jsonManifests[i])
              /\ JsonParseText(jsonFileContents[i]) = JsonParse(stringify_(jsonManifests[i]))
    /\ jsonStage = "rewritten" =>
          \A i \in 1..Len(jsonLoaded) :
              /\ StringifyText(jsonLoaded[i]) = jsonFileContents[i]
              /\ jsonFileContents[Len(jsonLoaded) + i] = StringifyText(jsonManifests[i])
C27_Witness ==
    /\ jsonStage = "rewritten"
    /\ jsonLoaded[2] # jsonManifests[2]
    /\ Len(jsonLoaded[2]) > 1
    /\ \E i \in 1..Len(jsonLoaded[2]) :
          \E j \in 1..Len(jsonLoaded[2][i][2].screenshots) :
              jsonLoaded[2][i][2].screenshots[j][2] = Null
    /\ \E i \in 1..Len(jsonLoaded[2]) :
          \E j \in 1..Len(jsonLoaded[2][i][2].screenshots) :
              jsonLoaded[2][i][2].screenshots[j][2] # Null

\* C28: when captureAllPages has resolved, its value is the collection it
\* was given (the same test cases, in the same order), every capture has
\* answered, and the screenshot list of each test case holds exactly one
\* screenshot for each per-browser result of its page, each of them cropped
\* and uploaded (it has its public URL).
C28_CaptureResultsComplete ==
    captureAllPagesPromise.state = "fulfilled" =>
        /\ captureAllPagesPromise.value = captureTestCases
        /\ Len(captureTestCases) = Len(captures)
        /\ [i \in 1..Len(captureTestCases) |->
               [captureTestCases[i] EXCEPT !.screenshotImageFiles = <<>>]] \in CaptureBatches
        /\ \A i \in 1..Len(captures) :
              LET files == captureTestCases[i].screenshotImageFiles
                  results == captures[i].results
                  p == captureTestCases[i].htmlFile.destinationRelativeFilePath
              IN /\ captures[i].cbt = "resolved"
                 /\ Len(files) = Len(results)
                 /\ \A j \in 1..Len(results) :
                       /\ results[j].stage = "uploaded"
                       /\ Cardinality({k \in 1..Len(files) :
                              files[k].userAgent.alias = results[j].browser}) = 1
                 /\ \A k \in 1..Len(files) :
                       /\ \E j \in 1..Len(results) :
                             results[j].browser = files[k].userAgent.alias
                       /\ files[k].publicUrl = ImageUrl(BaseUploadDir, p, files[k].userAgent.alias)
C28_Witness ==
    /\ captureAllPagesPromise.state = "fulfilled"
    /\ Len(captures) > 1
    /\ \E i \in 1..Len(captures) :
          /\ Len(captures[i].results) > 1
          /\ captureTestCases[i].screenshotImageFiles[1].userAgent.alias
                # captures[i].results[1].browser
    /\ \E i \in 1..Len(captures) : captures[i].results = <<>>

\* The relative paths of the component-test naming convention.
ComponentTestPaths == {AssetPathUniverse[2], AssetPathUniverse[3]}
\* Some pattern of the list matches the path.
SomeMatch(patternList, path) ==
    \E j \in 1..Len(patternList) : Includes(path, patternList[j])
\* The uploaded assets that are test pages under the run's filters.
UploadedTestPages ==
    {i \in 1..Len(uploads) :
        /\ uploads[i].io = "uploaded"
        /\ uploads[i].path \in ComponentTestPaths
        /\ urlPatterns.include = <<>> \/ SomeMatch(urlPatterns.include, uploads[i].path)
        /\ ~SomeMatch(urlPatterns.exclude, uploads[i].path)}
\* C29: the test cases are exactly the uploaded assets whose relative path
\* follows the component-test naming convention, matches an include pattern
\* (or the include list is empty) and matches no exclude pattern, one test
\* case each; no other file has a test case.
C29_TestPageFilter ==
    /\ Len(assetTestCases) = Cardinality(UploadedTestPages)
    /\ {assetTestCases[k].htmlFile.destinationRelativeFilePath : k \in 1..Len(assetTestCases)}
          = {Str(uploads[i].path) : i \in UploadedTestPages}
C29_Witness ==
    /\ assetTestCases # <<>>
    /\ Len(urlPatterns.include) > 1
    /\ urlPatterns.exclude # <<>>
    /\ \E i, j, k \in 1..Len(uploads) :
          /\ uploads[i].io = "uploaded" /\ i \in UploadedTestPages
          /\ uploads[j].io = "uploaded" /\ uploads[j].path \in ComponentTestPaths
          /\ SomeMatch(urlPatterns.include, uploads[j].path)
          /\ SomeMatch(urlPatterns.exclude, uploads[j].path)
          /\ uploads[k].io = "uploaded" /\ uploads[k].path \notin ComponentTestPaths

\* C30: a diff record has lost its image buffer only if the upload of its
\* diff image has succeeded and the image's URL is on the record; until
\* then (upload pending or failed) it holds the buffer and no URL; and once
\* diffGoldenJson has resolved every record of the diffs bucket has a diff
\* image URL and no buffer.
C30_BufferReleasedAfterUpload ==
    /\ Len(diffUploads) = Len(report.diffs)
    /\ \A i \in 1..Len(report.diffs) :
          /\ report.diffs[i].diffImageBuffer = Null
                => /\ diffUploads[i] = "done"
                   /\ report.diffs[i].diffImageUrl =
                         DiffImageUrl(report.diffs[i].htmlFilePath,
                                      report.diffs[i].userAgentAlias)
          /\ diffUploads[i] # "done"
                => /\ report.diffs[i].diffImageBuffer = DiffPng
                   /\ report.diffs[i].diffImageUrl = Null
    /\ diffGoldenJsonPromise = "fulfilled" =>
          \A i \in 1..Len(report.diffs) :
              /\ report.diffs[i].diffImageUrl # Null
              /\ report.diffs[i].diffImageBuffer = Null
C30_Witness ==
    /\ diffGoldenJsonPromise = "fulfilled"
    /\ Len(report.diffs) > 1
    /\ \A i \in 1..Len(report.diffs) : report.diffs[i].diffImageBuffer = Null

\* Asset i is a test page under the run's filters.
IsQualifyingAsset(i) ==
    /\ uploads[i].path \in ComponentTestPaths
    /\ urlPatterns.include = <<>> \/ SomeMatch(urlPatterns.include, uploads[i].path)
    /\ ~SomeMatch(urlPatterns.exclude, uploads[i].path)
TestCasePaths(tcs) == {tcs[k].htmlFile.destinationRelativeFilePath : k \in 1..Len(tcs)}
IsPrefix(s, t) == Len(s) <= Len(t) /\ SubSeq(t, 1, Len(s)) = s
\* C31: once uploadAllAssets has rejected, the uploads still in flight are
\* not cancelled: each can still take its next step, an upload that
\* succeeds afterwards still appends its test case to the shared array,
\* and no finished upload or appended test case is undone.
C31_SiblingsNotCancelled ==
    /\ [](uploadAllAssetsPromise.state = "rejected" =>
            \A i \in 1..Len(uploads) :
                /\ uploads[i].io = "reading" => ENABLED ReadFileResolves(i)
                /\ uploads[i].io = "uploading" => ENABLED UploadFileResolves(i)
                /\ uploads[i].io = "uploaded" /\ uploads[i].late /\ IsQualifyingAsset(i)
                      => Str(uploads[i].path) \in TestCasePaths(assetTestCases))
    /\ [][uploadAllAssetsPromise.state = "rejected" =>
            /\ uploadAllAssetsPromise' = uploadAllAssetsPromise
            /\ IsPrefix(assetTestCases, assetTestCases')
            /\ \A i \in 1..Len(uploads) :
                  /\ uploads[i].io = "uploaded" => uploads'[i] = uploads[i]
                  /\ uploads[i].io = "uploading" /\ uploads'[i].io = "uploaded"
                        => assetTestCases' = handleUploadOneAssetSuccess_(
                                                 uploads[i].path, assetTestCases, urlPatterns)]_vars
C31_Witness ==
    /\ uploadAllAssetsPromise.state = "rejected"
    /\ \E i, j \in 1..Len(uploads) :
          /\ uploads[i].io = "uploaded" /\ uploads[i].late /\ IsQualifyingAsset(i)
          /\ Str(uploads[i].path) \in TestCasePaths(assetTestCases)
          /\ uploads[j].io = "uploaded" /\ ~uploads[j].late

\* ------------------------------------------------- the batches side by side
\* One batch of each kind, each from its own inputs: an asset upload, a page
\* capture or a diff.
InitBatches == Init \/ InitUploadRun \/ InitCaptureRun
DiffIdle == diffGoldenJsonPromise = "none"
UploadIdle == uploadAllAssetsPromise.state = "none"
CaptureIdle == captureAllPagesPromise.state = "none"
\* A behaviour runs one of them.
NextBatches ==
    \/ UploadIdle /\ CaptureIdle /\ NextDiff
    \/ DiffIdle /\ CaptureIdle /\ NextUpload
    \/ DiffIdle /\ UploadIdle /\ NextCapture
SpecBatches == InitBatches /\ [][NextBatches]_vars

\* C32: within a batch every operation is issued at most once per item (one
\* upload per asset file, one capture request per test page, one upload
\* per per-browser result, one comparison per pair present in both
\* manifests and none for another pair), and a failed one is never issued
\* again.
C32_IssuedAtMostOnce ==
    /\ [](/\ \A i \in 1..Len(uploads) :
                /\ uploads[i].issued <= 1
                /\ uploads[i].io \in {"uploading", "uploaded", "uploadFailed"}
                      => uploads[i].issued = 1
                /\ \A j \in 1..Len(uploads) : uploads[i].path = uploads[j].path => i = j
          /\ captures # <<>> => Len(captures) = Len(captureTestCases)
          /\ \A i \in 1..Len(captures) :
                /\ captures[i].requests = 1
                /\ \A j \in 1..Len(captures[i].results) :
                      /\ captures[i].results[j].uploads <= 1
                      /\ captures[i].results[j].stage \in {"uploading", "uploaded"}
                            => captures[i].results[j].uploads = 1
          /\ compareAllPagesPromise # "none" =>
                /\ ComparisonKeys = KeysInBoth
                /\ Len(comparisons) = Cardinality(KeysInBoth)
                /\ \A i \in 1..Len(comparisons) : comparisons[i].invocations = 1)
    /\ [][/\ \A i \in 1..Len(uploads) :
                uploads[i].io \in {"readFailed", "uploadFailed"} => uploads'[i] = uploads[i]
          /\ \A i \in 1..Len(captures) :
                /\ captures[i].cbt = "failed" => captures'[i] = captures[i]
                /\ \A j \in 1..Len(captures[i].results) :
                      captures[i].results[j].stage = "failed"
                          => captures'[i].results[j] = captures[i].results[j]
          /\ \A i \in 1..Len(comparisons) :
                comparisons[i].comparator = "failed" => comparisons'[i] = comparisons[i]]_vars
C32_Witness ==
    \/ /\ \E i, j \in 1..Len(uploads) :
              /\ uploads[i].io = "uploadFailed" /\ uploads[i].issued = 1
              /\ uploads[j].io = "uploaded" /\ uploads[j].late
    \/ /\ \E i, k \in 1..Len(captures) :
              /\ captures[i].cbt = "failed" /\ i # k
              /\ \E j \in 1..Len(captures[k].results) :
                    captures[k].results[j].stage = "failed" /\ captures[k].results[j].uploads = 1
    \/ /\ \E i \in 1..Len(comparisons) : comparisons[i].comparator = "failed"
        /\ SuiteKeys(ActualSuite) \ KeysInBoth # {}
        /\ SuiteKeys(ExpectedSuite) \ KeysInBoth # {}

\* ------------------------------------ Controller: upload, then capture
\* The filters of the runs in which the capture follows the upload.
RunUrlPatterns ==
    {[include |-> <<>>, exclude |-> <<>>],
     [include |-> <<PatternB, PatternA>>, exclude |-> <<PatternB>>]}
InitRun == InitUploadRun /\ gitIgnored = {} /\ urlPatterns \in RunUrlPatterns

\* captureAllPages called with the array uploadAllAssets resolved with, up
\* to Promise.all(capturePromises).
CaptureUploadedTestCases ==
    /\ uploadAllAssetsPromise.state = "fulfilled"
    /\ captureAllPagesPromise.state = "none"
    /\ captureTestCases' = uploadAllAssetsPromise.value
    /\ captures' = [i \in 1..Len(captureTestCases') |->
                      [cbt |-> "pending", results |-> <<>>, requests |-> 1,
                       promise |-> [state |-> "pending", reason |-> NoCaptureError]]]
    /\ captureAllPagesPromise' =
          IF captureTestCases' = <<>>
          THEN [state |-> "fulfilled", reason |-> NoCaptureError, value |-> captureTestCases']
          ELSE [state |-> "pending", reason |-> NoCaptureError, value |-> <<>>]
    /\ UNCHANGED <<captureLog, firstCaptureFailure>>
    /\ UNCHANGED <<diffVars, uploadVars, storeVars, jsonVars, nameVars, docVars, pageVars>>

NextRun ==
    \/ NextUpload
    \/ CaptureUploadedTestCases
    \/ \E i \in 1..Len(captures) : \E rs \in CbtResultLists : CaptureOneUrlResolves(i, rs)
    \/ \E i \in 1..Len(captures) : CaptureOneUrlRejects(i)
    \/ \E i \in 1..Len(captures) : \E j \in 1..Len(captures[i].results) :
          DownloadAndCropResolves(i, j)
    \/ \E i \in 1..Len(captures) : \E j \in 1..Len(captures[i].results) :
          DownloadAndCropRejects(i, j)
    \/ \E i \in 1..Len(captures) : \E j \in 1..Len(captures[i].results) :
          ScreenshotUploadResolves(i, j)
    \/ \E i \in 1..Len(captures) : \E j \in 1..Len(captures[i].results) :
          ScreenshotUploadRejects(i, j)
SpecRun == InitRun /\ [][NextRun]_vars

\* The test pages among the run's asset files, and the browsers the capture
\* service answered with for a page.
QualifyingPages == {Str(uploads[i].path) : i \in {k \in 1..Len(uploads) : IsQualifyingAsset(k)}}
EachPageOnce(tcs) ==
    TestCasePaths(tcs) = QualifyingPages /\ Len(tcs) = Cardinality(QualifyingPages)
CapturedBrowsers(p) ==
    UNION {{captures[i].results[j].browser : j \in 1..Len(captures[i].results)} :
              i \in {k \in 1..Len(captures) :
                        captureTestCases[k].htmlFile.destinationRelativeFilePath = p}}
\* The manifest of the run as its inputs and the capture service's answers
\* determine it, written in the order of PageIds and BrowserIds.
RunManifest ==
    LET ps == SelectSeq(PageIds, LAMBDA p : p \in QualifyingPages)
        Shots(p) == LET bs == SelectSeq(BrowserIds, LAMBDA b : b \in CapturedBrowsers(p))
                    IN [j \in 1..Len(bs) |-> <<bs[j], ImageUrl(BaseUploadDir, p, bs[j])>>]
    IN [i \in 1..Len(ps) |->
          <<ps[i], [publicUrl |-> PageUrl(BaseUploadDir, ps[i]), screenshots |-> Shots(ps[i])]>>]
\* C33: in every interleaving of the uploads and of the captures in which
\* both joins succeed, the shared array holds each qualifying test page
\* exactly once, each test case holds exactly one screenshot file per
\* per-browser result, and the manifest fromTestCases builds from the array
\* is, key by key, the one the inputs and the capture answers determine.
C33_ManifestIndependentOfInterleaving ==
    /\ uploadAllAssetsPromise.state = "fulfilled" => EachPageOnce(uploadAllAssetsPromise.value)
    /\ captureAllPagesPromise.state = "fulfilled" =>
          LET tcs == captureAllPagesPromise.value
              manifest == fromTestCases(tcs)
          IN /\ EachPageOnce(tcs)
             /\ \A i \in 1..Len(tcs) :
                   LET files == tcs[i].screenshotImageFiles
                   IN /\ Len(files) = Len(captures[i].results)
                      /\ \A j \in 1..Len(captures[i].results) :
                            Cardinality({k \in 1..Len(files) :
                                files[k].userAgent.alias = captures[i].results[j].browser}) = 1
             /\ SameKeyByKey(manifest, RunManifest)
             /\ \A p \in ObjKeySet(manifest) :
                   ObjKeySet(ObjGet(manifest, p).screenshots)
                       = ObjKeySet(ObjGet(RunManifest, p).screenshots)
C33_Witness ==
    /\ captureAllPagesPromise.state = "fulfilled"
    /\ Len(captureAllPagesPromise.value) = 2
    /\ captureAllPagesPromise.value[1].htmlFile.destinationRelativeFilePath = PageIds[2]
    /\ \E i \in 1..Len(uploads) : ~IsQualifyingAsset(i)
    /\ \E i \in 1..2 :
          LET files == captureAllPagesPromise.value[i].screenshotImageFiles
          IN /\ Len(files) = 2
             /\ files[1].userAgent.alias = BrowserIds[2]
             /\ captures[i].results[1].browser = BrowserIds[1]

\* ------------------------------------- Controller: the browser file name
\* Strings are sequences of characters.
UpperCaseLetters ==
    <<"A", "B", "C", "D", "E", "F", "G", "H", "I", "J", "K", "L", "M",
      "N", "O", "P", "Q", "R", "S", "T", "U", "V", "W", "X", "Y", "Z">>
LowerCaseLetters ==
    <<"a", "b", "c", "d", "e", "f", "g", "h", "i", "j", "k", "l", "m",
      "n", "o", "p", "q", "r", "s", "t", "u", "v", "w", "x", "y", "z">>
\* The regular expression classes \d and \w.
IsDigit(c) == c \in {"0", "1", "2", "3", "4", "5", "6", "7", "8", "9"}
IsWordCharacter(c) ==
    \/ IsDigit(c) \/ c = "_"
    \/ \E k \in 1..26 : c = UpperCaseLetters[k] \/ c = LowerCaseLetters[k]
\* String.prototype.toLowerCase.
toLowerCase(str) ==
    [i \in 1..Len(str) |->
        IF \E k \in 1..26 : UpperCaseLetters[k] = str[i]
        THEN LowerCaseLetters[CHOOSE k \in 1..26 : UpperCaseLetters[k] = str[i]]
        ELSE str[i]]
\* Where /-E\d+$/ matches in str: the leftmost index from which "-E" and then
\* only digits, at least one, run to the end; 0 when there is no match.
EdgeVersionMatch(str) ==
    LET starts == {i \in 1..Len(str) :
                      /\ i + 2 <= Len(str)
                      /\ str[i] = "-" /\ str[i + 1] = "E"
                      /\ \A k \in (i + 2)..Len(str) : IsDigit(str[k])}
    IN IF starts = {} THEN 0 ELSE CHOOSE i \in starts : \A j \in starts : i <= j
\* A getBrowserFileName_ that leaves the OS name as it is.
getBrowserFileNameUnstripped(os, browser) ==
    SelectSeq(toLowerCase(os \o <<"_">> \o browser),
              LAMBDA c : IsWordCharacter(c) \/ c = ".")
\* getBrowserFileName_(osApiName, browserApiName).
getBrowserFileName_(os, browser) ==
    LET m == EdgeVersionMatch(os)
        stripped == IF m = 0 THEN os ELSE SubSeq(os, 1, m - 1)
    IN SelectSeq(toLowerCase(stripped \o <<"_">> \o browser),
                 LAMBDA c : IsWordCharacter(c) \/ c = ".")

\* OS and browser API names of the capture results.
OsBaseNames ==
    {<<"W", "i", "n", "1", "0">>, <<"M", "a", "c", "1", "0", ".", "1", "3">>,
     <<"W", "i", "n", " ", "8", ".", "1">>, <<"G", "-", "E", "7", "_", "x">>}
OsNameEndings ==
    {<<>>, <<"-", "E", "1", "7">>, <<"-", "E">>, <<"-", "e", "1", "7">>,
     <<"-", "E", "1", "-", "E", "1", "8">>, <<"-", "E", "1", "7", "b">>}
OsApiNames == {base \o ending : base \in OsBaseNames, ending \in OsNameEndings}
BrowserApiNames ==
    {<<"c", "h", "r", "o", "m", "e">>, <<"E", "d", "g", "e", "1", "7">>,
     <<"F", "F", " ", "6", "1">>, <<"S", "a", "f", "-", "E", "1", "1">>}

InitName ==
    /\ osApiName \in OsApiNames
    /\ browserApiName \in BrowserApiNames
    /\ browserFileName = Null
\* uploadScreenshotImage_ asks for the file name of its result's browser.
GetBrowserFileName ==
    /\ browserFileName = Null
    /\ browserFileName' = getBrowserFileName_(osApiName, browserApiName)
    /\ UNCHANGED <<osApiName, browserApiName>>
    /\ UNCHANGED <<diffVars, uploadVars, captureVars, storeVars, jsonVars, docVars, pageVars>>
NextName == GetBrowserFileName
InitNameRun ==
    IdleDiff /\ IdleUpload /\ IdleCapture /\ IdleStore /\ IdleJson /\ InitName /\ IdleDoc /\ IdlePage
SpecName == InitNameRun /\ [][NextName]_vars

\* The number of digits at the end of a string.
RECURSIVE TrailingDigits(_)
TrailingDigits(str) ==
    IF str = <<>> \/ ~IsDigit(str[Len(str)]) THEN 0
    ELSE 1 + TrailingDigits(SubSeq(str, 1, Len(str) - 1))
\* The string without a trailing "-E<digits>".
WithoutEdgeVersion(str) ==
    LET d == TrailingDigits(str)
    IN IF d > 0 /\ Len(str) >= d + 2 /\ SubSeq(str, Len(str) - d - 1, Len(str) - d) = <<"-", "E">>
       THEN SubSeq(str, 1, Len(str) - d - 2) ELSE str
\* The lower-case characters, the digits, the underscore and the dot.
FileNameCharacters ==
    {LowerCaseLetters[k] : k \in 1..26}
        \cup {"0", "1", "2", "3", "4", "5", "6", "7", "8", "9", "_", "."}
\* A string in lower case without the characters a file name does not keep.
RECURSIVE FileNamePart(_)
FileNamePart(str) ==
    IF str = <<>> THEN <<>>
    ELSE LET c == Head(str)
             k == {j \in 1..26 : UpperCaseLetters[j] = c}
             lower == IF k = {} THEN c ELSE LowerCaseLetters[CHOOSE j \in k : TRUE]
         IN (IF lower \in FileNameCharacters THEN <<lower>> ELSE <<>>) \o FileNamePart(Tail(str))
\* C34: the browser file name is the OS name without a trailing
\* "-E<digits>", an underscore and the browser name, in lower case and
\* without any character that is not a word character or a dot; Win10-E17
\* with chrome gives win10_chrome, as Win10 with chrome does.
C34_BrowserFileName ==
    browserFileName # Null =>
        /\ browserFileName = FileNamePart(WithoutEdgeVersion(osApiName)) \o <<"_">>
                                 \o FileNamePart(browserApiName)
        /\ \A i \in 1..Len(browserFileName) : browserFileName[i] \in FileNameCharacters
        /\ (/\ osApiName \in {<<"W", "i", "n", "1", "0", "-", "E", "1", "7">>,
                                <<"W", "i", "n", "1", "0">>}
            /\ browserApiName = <<"c", "h", "r", "o", "m", "e">>)
              => Str(browserFileName) = "win10_chrome"
C34_Witness ==
    /\ osApiName = <<"W", "i", "n", "1", "0", "-", "E", "1", "7">>
    /\ browserApiName = <<"c", "h", "r", "o", "m", "e">>
    /\ browserFileName # Null
    /\ Str(browserFileName) = "win10_chrome"

\* C35: the baseline a full-approval merge writes has exactly the pages and
\* the (page, browser) pairs of the new manifest: the added pairs are in
\* it, and the removed pairs, the pages absent from the run and every other
\* key only the old baseline had are not.
C35_FullMergeKeySet ==
    FullMerge =>
        LET written == goldenPathFile.content
        IN /\ goldenPathFile.written
           /\ ObjKeySet(written) = ObjKeySet(ActualSuite)
           /\ SuiteKeys(written) = SuiteKeys(ActualSuite)
           /\ BucketKeys(report.added) \subseteq SuiteKeys(written)
           /\ BucketKeys(report.removed) \cap SuiteKeys(written) = {}
           /\ (ObjKeySet(ExpectedSuite) \ ObjKeySet(ActualSuite)) \cap ObjKeySet(written) = {}
           /\ (SuiteKeys(ExpectedSuite) \ SuiteKeys(ActualSuite)) \cap SuiteKeys(written) = {}
C35_Witness ==
    /\ FullMerge
    /\ report.added # <<>>
    /\ \E i \in 1..Len(report.removed) : ~ObjHas(ActualSuite, report.removed[i].htmlFilePath)
    /\ SuiteKeys(ExpectedSuite) \ SuiteKeys(ActualSuite) # {}
    /\ SuiteKeys(goldenPathFile.content) # {}

\* ---------------------------------------- ReportGenerator: the report page
\* The page as the browser holds it: a checkbox is its checked and
\* indeterminate properties and whether it is rendered hidden; a changelist
\* holds its files and a file its browser rows, in document order.
getCheckboxMarkup_(isEnabled) ==
    [checked |-> isEnabled, indeterminate |-> FALSE, hidden |-> ~isEnabled]
\* populateMap of the constructor: the keys of the map in insertion order.
populateMap(changelist) ==
    LET first == SelectSeq([i \in 1..Len(changelist) |-> i],
                           LAMBDA i : \A j \in 1..(i - 1) :
                               changelist[j].htmlFilePath # changelist[i].htmlFilePath)
    IN [k \in 1..Len(first) |-> changelist[first[k]].htmlFilePath]
getDiffRowMarkup_(diff, showCheckboxes) ==
    [htmlFilePath |-> diff.htmlFilePath, userAgentAlias |-> diff.userAgentAlias,
     checkbox |-> getCheckboxMarkup_(showCheckboxes)]
getTestCaseMarkup_(htmlFilePath, changelist, showCheckboxes) ==
    LET diffs == SelectSeq(changelist, LAMBDA d : d.htmlFilePath = htmlFilePath)
    IN [htmlFilePath |-> htmlFilePath, checkbox |-> getCheckboxMarkup_(showCheckboxes),
        browsers |-> [i \in 1..Len(diffs) |-> getDiffRowMarkup_(diffs[i], showCheckboxes)]]
getDiffListMarkup_(changelist, showCheckboxes) ==
    LET htmlFilePaths == populateMap(changelist)
    IN [i \in 1..Len(htmlFilePaths) |->
          getTestCaseMarkup_(htmlFilePaths[i], changelist, showCheckboxes)]
getChangelistMarkup_(changelist, type, showCheckboxes) ==
    [type |-> type,
     checkbox |-> getCheckboxMarkup_(showCheckboxes /\ Len(changelist) > 0),
     files |-> getDiffListMarkup_(changelist, showCheckboxes)]
\* getApprovalBarMarkup_: the count the Approve button shows and whether the
\* button has the disabled attribute.
getApprovalBarMarkup_(reportJson) ==
    [approvalCount |-> Len(reportJson.testCases), approveDisabled |-> FALSE]
\* The changelists of generateHtml, in document order.
generateHtml(reportJson) ==
    <<getChangelistMarkup_(reportJson.diffs, "diff", TRUE),
      getChangelistMarkup_(reportJson.added, "added", TRUE),
      getChangelistMarkup_(reportJson.removed, "removed", TRUE),
      getChangelistMarkup_(reportJson.unchanged, "unchanged", FALSE)>>

\* report.js, the click listener. The browser has toggled the clicked
\* checkbox and cleared its indeterminate state before the listener runs.
Clicked(checkbox) == [checkbox EXCEPT !.checked = ~@, !.indeterminate = FALSE]
SetChecked(checkbox, checked) ==
    [checkbox EXCEPT !.checked = checked, !.indeterminate = FALSE]
updateFileCheckbox(fileElem) ==
    LET areSomeChecked == \E i \in 1..Len(fileElem.browsers) :
            fileElem.browsers[i].checkbox.checked /\ ~fileElem.browsers[i].checkbox.indeterminate
        areSomeUnchecked == \E i \in 1..Len(fileElem.browsers) :
            ~fileElem.browsers[i].checkbox.checked \/ fileElem.browsers[i].checkbox.indeterminate
    IN [fileElem EXCEPT !.checkbox.checked = areSomeChecked,
                        !.checkbox.indeterminate = areSomeChecked /\ areSomeUnchecked]
updateChangelistCheckbox(changelistElem) ==
    LET areSomeChecked == \E i \in 1..Len(changelistElem.files) :
            changelistElem.files[i].checkbox.checked
                /\ ~changelistElem.files[i].checkbox.indeterminate
        areSomeUnchecked == \E i \in 1..Len(changelistElem.files) :
            ~changelistElem.files[i].checkbox.checked
                \/ changelistElem.files[i].checkbox.indeterminate
    IN [changelistElem EXCEPT !.checkbox.checked = areSomeChecked,
                              !.checkbox.indeterminate = areSomeChecked /\ areSomeUnchecked]
\* The browser rows of the document, in document order.
RECURSIVE Concat(_)
Concat(ss) == IF ss = <<>> THEN <<>> ELSE Head(ss) \o Concat(Tail(ss))
BrowserElems(changelistElem) ==
    Concat([i \in 1..Len(changelistElem.files) |-> changelistElem.files[i].browsers])
AllBrowserElems(doc) == Concat([c \in 1..Len(doc) |-> BrowserElems(doc[c])])
\* updateApprovalCounts: the count and the disabled state it sets.
updateApprovalCounts(doc) ==
    LET approvedBrowserCheckboxElems ==
            SelectSeq(AllBrowserElems(doc),
                      LAMBDA e : e.checkbox.checked /\ ~e.checkbox.indeterminate)
    IN [approvalCount |-> Len(approvedBrowserCheckboxElems),
        approveDisabled |-> Len(approvedBrowserCheckboxElems) = 0]
\* ... .forEach((checkboxElem) => ...) over every checkbox of a file or of
\* a changelist.
SetFileCheckboxes(fileElem, checked) ==
    [checkbox |-> SetChecked(fileElem.checkbox, checked),
     htmlFilePath |-> fileElem.htmlFilePath,
     browsers |-> [i \in 1..Len(fileElem.browsers) |->
                     [fileElem.browsers[i] EXCEPT !.checkbox = SetChecked(@, checked)]]]
SetChangelistCheckboxes(changelistElem, checked) ==
    [type |-> changelistElem.type,
     checkbox |-> SetChecked(changelistElem.checkbox, checked),
     files |-> [i \in 1..Len(changelistElem.files) |->
                  SetFileCheckboxes(changelistElem.files[i], checked)]]

\* getSelectedBrowserElems: type "" selects the rows of every changelist,
\* checkedOnly stands for the ':checked' input selector.
getSelectedBrowserElems(doc, type, checkedOnly) ==
    LET rows == Concat([c \in 1..Len(doc) |->
                          IF type = "" \/ doc[c].type = type
                          THEN BrowserElems(doc[c]) ELSE <<>>])
    IN SelectSeq(rows, LAMBDA e : /\ checkedOnly => e.checkbox.checked
                                  /\ ~e.checkbox.indeterminate)
getChangelistArgs(doc, type, flag) ==
    LET browserElems == getSelectedBrowserElems(doc, type, TRUE)
    IN [i \in 1..Len(browserElems) |->
          flag \o "='" \o browserElems[i].htmlFilePath \o ":"
               \o browserElems[i].userAgentAlias \o "'"]
\* Array.from(new Set(...)): the first occurrence of every element.
Distinct(seq) ==
    LET first == SelectSeq([i \in 1..Len(seq) |-> i],
                           LAMBDA i : \A j \in 1..(i - 1) : seq[j] # seq[i])
    IN [k \in 1..Len(first) |-> seq[first[k]]]
getRetryArgs(doc, type) ==
    LET browserElems == getSelectedBrowserElems(doc, type, TRUE)
    IN Distinct([i \in 1..Len(browserElems) |->
                   "--mdc-include-url=" \o browserElems[i].htmlFilePath])
       \o Distinct([i \in 1..Len(browserElems) |->
                      "--mdc-include-browser=" \o browserElems[i].userAgentAlias])
RECURSIVE Join(_, _)
Join(seq, sep) ==
    IF seq = <<>> THEN ""
    ELSE IF Len(seq) = 1 THEN seq[1]
    ELSE seq[1] \o sep \o Join(Tail(seq), sep)
ApproveChangelistArgs(doc) ==
    getChangelistArgs(doc, "diff", "--mdc-approve-diff")
        \o getChangelistArgs(doc, "added", "--mdc-approve-add")
        \o getChangelistArgs(doc, "removed", "--mdc-approve-remove")
ApproveCommand(allArgs) == "npm run screenshot:approve -- " \o Join(allArgs, " ")
ReportJsonUrlArg(url) == "--mdc-report-json-url='" \o url \o "'"
approveSelectedCommand(doc, url) ==
    LET changelistArgs == ApproveChangelistArgs(doc)
        areAllSelected == Len(changelistArgs) = Len(getSelectedBrowserElems(doc, "", FALSE))
    IN ApproveCommand(IF areAllSelected THEN <<ReportJsonUrlArg(url)>>
                      ELSE <<ReportJsonUrlArg(url)>> \o changelistArgs)
retrySelectedCommand(doc) ==
    "npm run screenshot:test -- " \o Join(getRetryArgs(doc, "diff"), " ")

\* The notice: shown, the pending timer cleared, a new timer started.
\* setTimeout hands out the next timer id; a timer is its id and the time
\* it is due.
NoticeSeconds == 4
MaxClock == 7
MaxCopies == 3
NextTimerId == approvalClipboardNoticeTimer + 1
ShowClipboardNoticeKeepingTimer ==
    /\ noticeHidden' = FALSE
    /\ timers' = timers \cup {[id |-> NextTimerId, due |-> clock + NoticeSeconds]}
    /\ approvalClipboardNoticeTimer' = NextTimerId
    /\ noticeShownAt' = Append(noticeShownAt, clock)
ShowClipboardNotice ==
    /\ noticeHidden' = FALSE
    /\ timers' = {t \in timers : t.id # approvalClipboardNoticeTimer}
                    \cup {[id |-> NextTimerId, due |-> clock + NoticeSeconds]}
    /\ approvalClipboardNoticeTimer' = NextTimerId
    /\ noticeShownAt' = Append(noticeShownAt, clock)

frontRest == <<diffVars, uploadVars, captureVars, storeVars, jsonVars, nameVars, docVars>>

\* A click on the checkbox of a browser row.
ClickBrowserCheckbox(c, f, b) ==
    /\ ~changelists[c].files[f].browsers[b].checkbox.hidden
    /\ LET clicked == [changelists EXCEPT ![c].files[f].browsers[b].checkbox = Clicked(@)]
           withFile == [clicked EXCEPT ![c].files[f] = updateFileCheckbox(@)]
           doc == [withFile EXCEPT ![c] = updateChangelistCheckbox(@)]
       IN /\ changelists' = doc
          /\ approvalCount' = updateApprovalCounts(doc).approvalCount
          /\ approveDisabled' = updateApprovalCounts(doc).approveDisabled
    /\ UNCHANGED <<reportJsonUrl, clipboardContent, noticeHidden,
                   approvalClipboardNoticeTimer, timers, noticeShownAt, clock, frontRest>>
\* A click on the checkbox of a file heading.
ClickFileCheckbox(c, f) ==
    /\ ~changelists[c].files[f].checkbox.hidden
    /\ LET checked == Clicked(changelists[c].files[f].checkbox).checked
           withFile == [changelists EXCEPT ![c].files[f] = SetFileCheckboxes(@, checked)]
           doc == [withFile EXCEPT ![c] = updateChangelistCheckbox(@)]
       IN /\ changelists' = doc
          /\ approvalCount' = updateApprovalCounts(doc).approvalCount
          /\ approveDisabled' = updateApprovalCounts(doc).approveDisabled
    /\ UNCHANGED <<reportJsonUrl, clipboardContent, noticeHidden,
                   approvalClipboardNoticeTimer, timers, noticeShownAt, clock, frontRest>>
\* A click on the checkbox of a changelist heading.
ClickChangelistCheckbox(c) ==
    /\ ~changelists[c].checkbox.hidden
    /\ LET checked == Clicked(changelists[c].checkbox).checked
           doc == [changelists EXCEPT ![c] = SetChangelistCheckboxes(@, checked)]
       IN /\ changelists' = doc
          /\ approvalCount' = updateApprovalCounts(doc).approvalCount
          /\ approveDisabled' = updateApprovalCounts(doc).approveDisabled
    /\ UNCHANGED <<reportJsonUrl, clipboardContent, noticeHidden,
                   approvalClipboardNoticeTimer, timers, noticeShownAt, clock, frontRest>>
\* The Approve button: a disabled button does not call its handler.
ApproveSelected ==
    /\ changelists # <<>>
    /\ ~approveDisabled
    /\ NextTimerId <= MaxCopies
    /\ clipboardContent' = approveSelectedCommand(changelists, reportJsonUrl)
    /\ ShowClipboardNotice
    /\ UNCHANGED <<changelists, reportJsonUrl, approvalCount, approveDisabled, clock,
                   frontRest>>
\* The Retry button, rendered disabled when the report has no diffs.
RetrySelected ==
    /\ changelists # <<>>
    /\ changelists[1].files # <<>>
    /\ NextTimerId <= MaxCopies
    /\ clipboardContent' = retrySelectedCommand(changelists)
    /\ ShowClipboardNotice
    /\ UNCHANGED <<changelists, reportJsonUrl, approvalCount, approveDisabled, clock,
                   frontRest>>
\* A second passes.
Tick ==
    /\ changelists # <<>>
    /\ clock < MaxClock
    /\ clock' = clock + 1
    /\ UNCHANGED <<changelists, reportJsonUrl, approvalCount, approveDisabled,
                   clipboardContent, noticeHidden, approvalClipboardNoticeTimer, timers,
                   noticeShownAt, frontRest>>
\* The callback of a timer that is due hides the notice.
TimerFires(t) ==
    /\ t \in timers
    /\ clock >= t.due
    /\ noticeHidden' = TRUE
    /\ timers' = timers \ {t}
    /\ UNCHANGED <<changelists, reportJsonUrl, approvalCount, approveDisabled,
                   clipboardContent, approvalClipboardNoticeTimer, noticeShownAt, clock,
                   frontRest>>

\* The page of a finished diff, as generateHtml renders it.
MaxPageShots == 3
PageScenarios == {st \in Scenarios : ShotCount(st) <= MaxPageShots}
InitReported ==
    /\ \E st \in PageScenarios :
          LET cs == PageComparisonPromises(fromTestCases(TestCasesOf(st, PageIds, BrowserIds)),
                                           JsonParse(GoldenOf(st)))
          IN \E mismatch \in [1..Len(cs) -> {MismatchThreshold - 1, MismatchThreshold}] :
                /\ \A i \in 1..Len(cs) : mismatch[i] \in Mismatches(cs[i])
                /\ testCases = TestCasesOf(st, PageIds, BrowserIds)
                /\ report = ReportOf(st, mismatch)
                /\ goldenFile = GoldenOf(st)
                /\ diffUploads = [i \in 1..Len(report.diffs) |-> "done"]
    /\ comparisons = <<>>
    /\ cachedGoldenJsonFromDiffBase_ = NoCache
    /\ compareAllPagesPromise = "fulfilled"
    /\ diffGoldenJsonPromise = "fulfilled"
    /\ diffError = NoError
    /\ cliArgs = NoArgs
    /\ approvePromise = "none"
    /\ goldenPathFile = NoFile
InitPage ==
    /\ InitReported
    /\ changelists = generateHtml(report)
    /\ reportJsonUrl = PageUrl(BaseUploadDir, "report.json")
    /\ approvalCount = getApprovalBarMarkup_(report).approvalCount
    /\ approveDisabled = getApprovalBarMarkup_(report).approveDisabled
    /\ clipboardContent = ""
    /\ noticeHidden = TRUE
    /\ approvalClipboardNoticeTimer = NoTimer
    /\ timers = {}
    /\ noticeShownAt = <<>>
    /\ clock = 0
InitPageRun ==
    InitPage /\ IdleUpload /\ IdleCapture /\ IdleStore /\ IdleJson /\ IdleName /\ IdleDoc
NextPage ==
    \/ \E c \in 1..Len(changelists) : \E f \in 1..Len(changelists[c].files) :
          \E b \in 1..Len(changelists[c].files[f].browsers) : ClickBrowserCheckbox(c, f, b)
    \/ \E c \in 1..Len(changelists) : \E f \in 1..Len(changelists[c].files) :
          ClickFileCheckbox(c, f)
    \/ \E c \in 1..Len(changelists) : ClickChangelistCheckbox(c)
    \/ ApproveSelected
    \/ RetrySelected
SpecPage == InitPageRun /\ [][NextPage]_vars
NextNotice ==
    \/ ApproveSelected
    \/ RetrySelected
    \/ Tick
    \/ \E t \in timers : TimerFires(t)
SpecNotice == InitPageRun /\ [][NextNotice]_vars

\* ------------------------------------------------ report page: checkboxes
\* A heading checkbox reflects the browser rows beneath it.
Reflects(checkbox, browserElems) ==
    LET someChecked == \E i \in 1..Len(browserElems) : browserElems[i].checkbox.checked
        allChecked == \A i \in 1..Len(browserElems) : browserElems[i].checkbox.checked
    IN /\ checkbox.checked <=> someChecked
       /\ checkbox.indeterminate <=> (someChecked /\ ~allChecked)
FileCheckboxesReflect ==
    \A c \in 1..Len(changelists) : \A f \in 1..Len(changelists[c].files) :
        Reflects(changelists[c].files[f].checkbox, changelists[c].files[f].browsers)
ChangelistCheckboxesReflect ==
    \A c \in 1..Len(changelists) :
        Reflects(changelists[c].checkbox, BrowserElems(changelists[c]))
\* C36: after any sequence of checkbox clicks every file checkbox and every
\* changelist checkbox is checked exactly when at least one browser checkbox
\* beneath it is checked, and indeterminate exactly when some but not all of
\* them are checked.
C36_CheckboxesReflectBrowsers == FileCheckboxesReflect /\ ChangelistCheckboxesReflect

\* --------------------------------------------- report page: Approve button
CheckedBrowserCount ==
    Len(SelectSeq(AllBrowserElems(changelists), LAMBDA e : e.checkbox.checked))
CountMatchesChecked ==
    /\ approvalCount = CheckedBrowserCount
    /\ approveDisabled <=> CheckedBrowserCount = 0
\* C37: from the initial render onwards and after every checkbox click the
\* count on the Approve button equals the number of checked browser
\* checkboxes, and the button is disabled exactly when that number is zero.
C37_ApproveCountMatchesChecked == changelists # <<>> => CountMatchesChecked
\* What the click listener establishes: the count is right after a click.
CountMatchesAfterClick == [][changelists' # changelists => CountMatchesChecked']_vars

\* ------------------------------------------ report page: approval command
ApprovalFlag(type) ==
    IF type = "diff" THEN "--mdc-approve-diff"
    ELSE IF type = "added" THEN "--mdc-approve-add" ELSE "--mdc-approve-remove"
ApprovableChangelists(doc) == SelectSeq(doc, LAMBDA cl : cl.type # "unchanged")
EveryEntrySelected(doc) ==
    \A c \in 1..Len(ApprovableChangelists(doc)) :
        LET rows == BrowserElems(ApprovableChangelists(doc)[c])
        IN \A i \in 1..Len(rows) : rows[i].checkbox.checked
\* One flag per selected entry, in its own bucket's flag.
SelectedEntryFlags(doc) ==
    Concat([c \in 1..Len(ApprovableChangelists(doc)) |->
        LET cl == ApprovableChangelists(doc)[c]
            rows == SelectSeq(BrowserElems(cl), LAMBDA e : e.checkbox.checked)
        IN [i \in 1..Len(rows) |->
              ApprovalFlag(cl.type) \o "='" \o rows[i].htmlFilePath \o ":"
                  \o rows[i].userAgentAlias \o "'"]])
BlanketApproval == ApproveCommand(<<ReportJsonUrlArg(reportJsonUrl)>>)
\* C38: the command of approveSelected is a blanket approval exactly when
\* every diff, added and removed entry is selected; otherwise it carries
\* one approval flag per selected entry, in the flag of the entry's bucket.
C38_BlanketIffAllSelected ==
    [][ApproveSelected =>
          clipboardContent' =
              IF EveryEntrySelected(changelists) THEN BlanketApproval
              ELSE ApproveCommand(<<ReportJsonUrlArg(reportJsonUrl)>>
                                      \o SelectedEntryFlags(changelists))]_vars
\* What approveSelected does guarantee: no blanket approval while an entry
\* is unselected, and the flags of exactly the selected entries otherwise.
NoBlanketWhenUnselected ==
    [][ApproveSelected =>
          /\ ~EveryEntrySelected(changelists) =>
                clipboardContent' = ApproveCommand(<<ReportJsonUrlArg(reportJsonUrl)>>
                                                       \o SelectedEntryFlags(changelists))
          /\ clipboardContent' \in
                {BlanketApproval,
                 ApproveCommand(<<ReportJsonUrlArg(reportJsonUrl)>>
                                    \o SelectedEntryFlags(changelists))}]_vars

\* ------------------------------------------------ report page: the notice
LastShownAt == noticeShownAt[Len(noticeShownAt)]
\* C40: after approveSelected or retrySelected the clipboard notice stays
\* visible until 4 seconds after the most recent invocation of either: the
\* only pending timer is the one of the most recent invocation, so a timer
\* of an earlier invocation never hides the notice early, and at most one
\* hide timer is pending at any time.
C40_NoticeVisibleForFourSeconds ==
    /\ Cardinality(timers) <= 1
    /\ \A t \in timers : /\ t.id = approvalClipboardNoticeTimer
                          /\ t.due = LastShownAt + NoticeSeconds
    /\ (noticeShownAt # <<>> /\ clock < LastShownAt + NoticeSeconds) => ~noticeHidden
    /\ ~noticeHidden => timers # {}
\* The notice is still visible after the time the timer of an earlier
\* invocation was due.
C40_Witness ==
    /\ Len(noticeShownAt) >= 2
    /\ noticeShownAt[1] + NoticeSeconds <= clock
    /\ clock < LastShownAt + NoticeSeconds
    /\ ~noticeHidden

\* ------------------------------------------- Controller: uploadDiffReport
\* A file of the report: being written to disk, being uploaded, uploaded, or
\* failed in one of the two.
ReportFile(filename, content) ==
    [filename |-> filename, content |-> content, stage |-> "writing", publicUrl |-> Null]
\* Promise.all over the two JSON files.
AnyJsonFileUploaded(files) == \E i \in 1..2 : files[i].stage = "uploaded"
JsonFilesUploaded(files) == \A i \in 1..2 : files[i].stage = "uploaded"
\* uploadDiffReport up to its first suspension.
UploadDiffReport ==
    /\ diffGoldenJsonPromise = "fulfilled"
    /\ uploadDiffReportPromise.state = "none"
    /\ uploadDiffReportPromise' = [state |-> "pending", value |-> Null]
    /\ uploadDiffReportAwait' = "getSnapshotJsonString"
    /\ UNCHANGED <<reportFiles, diffReportHtml>>
    /\ UNCHANGED <<diffVars, uploadVars, captureVars, storeVars, jsonVars, nameVars, pageVars>>
\* The snapshot string arrives: both writeFile calls start.
GetSnapshotJsonStringResolves ==
    /\ uploadDiffReportAwait = "getSnapshotJsonString"
    /\ LET jsonData == getJsonData_(report,
                           fromDiffBase(cachedGoldenJsonFromDiffBase_, goldenFile),
                           cliArgs.hasAnyFilters)
       IN /\ ~jsonData.threw
          /\ reportFiles' = <<ReportFile("report.json", report),
                              ReportFile("snapshot.json", stringify_(jsonData.json))>>
    /\ uploadDiffReportAwait' = "Promise.all"
    /\ UNCHANGED <<diffReportHtml, uploadDiffReportPromise>>
    /\ UNCHANGED <<diffVars, uploadVars, captureVars, storeVars, jsonVars, nameVars, pageVars>>
\* The diff base cannot be read: uploadDiffReport rejects before any write.
GetSnapshotJsonStringRejects ==
    /\ uploadDiffReportAwait = "getSnapshotJsonString"
    /\ uploadDiffReportPromise' = [state |-> "rejected", value |-> "getSnapshotJsonString"]
    /\ uploadDiffReportAwait' = "thrown"
    /\ UNCHANGED <<reportFiles, diffReportHtml>>
    /\ UNCHANGED <<diffVars, uploadVars, captureVars, storeVars, jsonVars, nameVars, pageVars>>
\* A failed writeFile rejects the await uploadDiffReport is suspended at, if
\* that await still waits for it; a second failure of Promise.all is dropped.
WriteFileFailed(i) ==
    IF uploadDiffReportPromise.state = "pending"
    THEN /\ uploadDiffReportPromise' = [state |-> "rejected", value |-> reportFiles[i].filename]
         /\ uploadDiffReportAwait' = "thrown"
    ELSE UNCHANGED <<uploadDiffReportPromise, uploadDiffReportAwait>>
\* fs.writeFile of a file resolves: its upload starts.
ReportWriteResolves(i) ==
    /\ reportFiles[i].stage = "writing"
    /\ reportFiles' = [reportFiles EXCEPT ![i].stage = "uploading"]
    /\ UNCHANGED <<diffReportHtml, uploadDiffReportPromise, uploadDiffReportAwait>>
    /\ UNCHANGED <<diffVars, uploadVars, captureVars, storeVars, jsonVars, nameVars, pageVars>>
ReportWriteRejects(i) ==
    /\ reportFiles[i].stage = "writing"
    /\ reportFiles' = [reportFiles EXCEPT ![i].stage = "writeFailed"]
    /\ WriteFileFailed(i)
    /\ UNCHANGED diffReportHtml
    /\ UNCHANGED <<diffVars, uploadVars, captureVars, storeVars, jsonVars, nameVars, pageVars>>
\* The upload of a file resolves. The second of the two JSON uploads
\* resumes uploadDiffReport, which calls generateHtml; the upload of the
\* page makes it return the page's URL.
ReportUploadResolves(i) ==
    /\ reportFiles[i].stage = "uploading"
    /\ LET files == [reportFiles EXCEPT
                        ![i].stage = "uploaded",
                        ![i].publicUrl = PageUrl(BaseUploadDir, reportFiles[i].filename)]
       IN /\ reportFiles' = files
          /\ IF uploadDiffReportAwait = "Promise.all" /\ JsonFilesUploaded(files)
             THEN /\ uploadDiffReportAwait' = "generateHtml"
                  /\ UNCHANGED uploadDiffReportPromise
             ELSE IF uploadDiffReportAwait = "writeFile"
             THEN /\ uploadDiffReportAwait' = "returned"
                  /\ uploadDiffReportPromise' =
                        [state |-> "fulfilled", value |-> files[i].publicUrl]
             ELSE UNCHANGED <<uploadDiffReportPromise, uploadDiffReportAwait>>
    /\ UNCHANGED diffReportHtml
    /\ UNCHANGED <<diffVars, uploadVars, captureVars, storeVars, jsonVars, nameVars, pageVars>>
ReportUploadRejects(i) ==
    /\ reportFiles[i].stage = "uploading"
    /\ reportFiles' = [reportFiles EXCEPT ![i].stage = "uploadFailed"]
    /\ WriteFileFailed(i)
    /\ UNCHANGED diffReportHtml
    /\ UNCHANGED <<diffVars, uploadVars, captureVars, storeVars, jsonVars, nameVars, pageVars>>
\* generateHtml resolves with the page, which refers to the uploaded
\* report.json and snapshot.json; the writeFile of report.html starts.
GenerateHtmlResolves ==
    /\ uploadDiffReportAwait = "generateHtml"
    /\ LET html == [reportJsonUrl |-> reportFiles[1].publicUrl,
                    snapshotJsonUrl |-> reportFiles[2].publicUrl,
                    changelists |-> generateHtml(report)]
       IN /\ diffReportHtml' = html
          /\ reportFiles' = Append(reportFiles, ReportFile("report.html", html))
    /\ uploadDiffReportAwait' = "writeFile"
    /\ UNCHANGED uploadDiffReportPromise
    /\ UNCHANGED <<diffVars, uploadVars, captureVars, storeVars, jsonVars, nameVars, pageVars>>

InitReportRun ==
    InitReported /\ IdleUpload /\ IdleCapture /\ IdleStore /\ IdleJson /\ IdleFront
NextReport ==
    \/ UploadDiffReport
    \/ GetSnapshotJsonStringResolves
    \/ GetSnapshotJsonStringRejects
    \/ \E i \in 1..Len(reportFiles) : ReportWriteResolves(i)
    \/ \E i \in 1..Len(reportFiles) : ReportWriteRejects(i)
    \/ \E i \in 1..Len(reportFiles) : ReportUploadResolves(i)
    \/ \E i \in 1..Len(reportFiles) : ReportUploadRejects(i)
    \/ GenerateHtmlResolves
SpecReport == InitReportRun /\ [][NextReport]_vars

ReportFileNamed(filename) ==
    {i \in 1..Len(reportFiles) : reportFiles[i].filename = filename}
\* C39: report.html is generated and uploaded only after the uploads of
\* report.json and snapshot.json have both succeeded; uploadDiffReport
\* resolves with the page's public location only after the page upload
\* succeeded; if either earlier upload fails, no report page is uploaded.
C39_PageAfterJsonUploads ==
    /\ (diffReportHtml # NoHtml \/ ReportFileNamed("report.html") # {}) =>
          /\ Len(reportFiles) >= 2
          /\ reportFiles[1].filename = "report.json" /\ reportFiles[1].stage = "uploaded"
          /\ reportFiles[2].filename = "snapshot.json" /\ reportFiles[2].stage = "uploaded"
          /\ diffReportHtml.reportJsonUrl = reportFiles[1].publicUrl
          /\ diffReportHtml.snapshotJsonUrl = reportFiles[2].publicUrl
    /\ uploadDiffReportPromise.state = "fulfilled" =>
          \E i \in ReportFileNamed("report.html") :
              /\ reportFiles[i].stage = "uploaded"
              /\ uploadDiffReportPromise.value = reportFiles[i].publicUrl
              /\ reportFiles[i].publicUrl = PageUrl(BaseUploadDir, "report.html")
    /\ (\E i \in 1..Len(reportFiles) :
            /\ reportFiles[i].filename \in {"report.json", "snapshot.json"}
            /\ reportFiles[i].stage \in {"writeFailed", "uploadFailed"}) =>
          /\ ReportFileNamed("report.html") = {}
          /\ diffReportHtml = NoHtml
          /\ uploadDiffReportPromise.state = "rejected"
\* The call has resolved with the URL of the uploaded page.
C39_Witness ==
    /\ uploadDiffReportPromise = [state |-> "fulfilled",
                                  value |-> PageUrl(BaseUploadDir, "report.html")]
    /\ Len(reportFiles) = 3
    /\ \A i \in 1..3 : reportFiles[i].stage = "uploaded"
    /\ report.diffs # <<>>
====
